---- MODULE Spec2Model ----
(***************************************************************************)
(* THunter: the task store, the lifecycle operations (workon / stop /      *)
(* finish / restart), the progress calculator and the edit workflow.       *)
(*                                                                         *)
(* The two sqlite tables are sets of rows keyed by their INTEGER PRIMARY   *)
(* KEY.  Every TaskHunter method is an operator from a database value      *)
(* [tasks, history] to a result [err, db, ret, now]; every CLI command is  *)
(* one action that composes them.  Python's None is the empty tuple and a  *)
(* present value x is <<x>>; strings that are searched (names, string      *)
(* identifiers) are tuples of one-character strings.                       *)
(***************************************************************************)
EXTENDS Integers, Sequences, FiniteSets, TLC

VARIABLES tasks, history, clock, outcome, task_history, progress,
          task_display, parsed_data, message, lookup, listed, call

vars == <<tasks, history, clock, outcome, task_history, progress,
          task_display, parsed_data, message, lookup, listed, call>>

\* what the text codec and a lone get_task call work on
codec == <<task_display, parsed_data, message>>

\* what get_tasks returned, and the command that is part-way through its writes
api == <<listed, call>>

\* ---------------------------------------------------------------- bounds
\* lifecycle runs: task ids, history row ids, clock values
MaxId == 3
MaxHist == 3
MaxTime == 2
\* runs with estimate, rm and edit
MaxEditId == 2
MaxEditHist == 3
MaxEditTime == 2
\* records in an edited HISTORY block
MaxLen == 2
\* calc_progress on its own: records of the list, largest timestamp
MaxRecs == 4
MaxStamp == 2
\* validate_task_data on its own: records of the parsed history
MaxParsed == 3
\* characters of a task's name and description in the text codec
MaxName == 2
\* get_task on its own: task ids of the store it searches
MaxLookupId == 2
\* get_tasks on its own: task ids of the store it lists, largest last_modified
MaxListId == 3
MaxListTime == 2
\* rm and edit statement by statement: task ids of the store
MaxStepId == 2
\* get_history on its own: rows of the history table, task ids they refer to
MaxHistRows == 3
MaxHistTask == 2
\* seconds that may turn over while one command runs
MaxDrift == 0
\* rows of the history table when the writes are taken one by one
MaxWriteRows == 5

\* ------------------------------------------------------------- constants
None == <<>>

Some(x) == <<x>>

CURRENT == "Current"

IN_PROGRESS == "In Progress"

TODO == "TODO"

FINISHED == "Finished"

Status == {CURRENT, IN_PROGRESS, TODO, FINISHED}

STATUS_ORDERING == <<CURRENT, IN_PROGRESS, TODO, FINISHED>>

OK == "ok"

ThunterCouldNotFindTaskError == "ThunterCouldNotFindTaskError"

ThunterFoundMultipleTasksError == "ThunterFoundMultipleTasksError"

ThunterTaskValidationError == "ThunterTaskValidationError"

AssertionError == "AssertionError"

TypeError == "TypeError"

\* parsimonious: the text does not match the grammar
ParseError == "ParseError"

\* parsimonious: a visit_ method raised
VisitationError == "VisitationError"

\* ---------------------------------------------------------------- inputs
Names == {<<"a">>, <<"a", "b">>}

\* A task identifier: absent, an int, or a str (TaskIdentifier = int | str).
NoIdent == [kind |-> "none", int |-> 0, str |-> <<>>]

IntIdent(n) == [kind |-> "int", int |-> n, str |-> <<>>]

StrIdent(s) == [kind |-> "str", int |-> 0, str |-> s]

\* ------------------------------------------------------------ the tables
DB(t, h) == [tasks |-> t, history |-> h]

db == DB(tasks, history)

MaxOf(S) == IF S = {} THEN 0 ELSE CHOOSE m \in S : \A x \in S : x <= m

\* sqlite INTEGER PRIMARY KEY without AUTOINCREMENT: largest rowid in use + 1
lastrowid(rows) == MaxOf({r.id : r \in rows}) + 1

Raise(d, e, t) == [err |-> e, db |-> d, ret |-> None, now |-> t]

Return(d, r, t) == [err |-> OK, db |-> d, ret |-> r, now |-> t]

\* ---------------------------------------------------------------- lookup
Digits == <<"0", "1", "2", "3", "4", "5", "6", "7", "8", "9">>

isdigit(s) == Len(s) > 0 /\ \A i \in 1..Len(s) : \E k \in 1..10 : Digits[k] = s[i]

DigitVal(c) == (CHOOSE k \in 1..10 : Digits[k] = c) - 1

RECURSIVE StrToInt(_)
StrToInt(s) == IF Len(s) = 0 THEN 0
               ELSE 10 * StrToInt(SubSeq(s, 1, Len(s) - 1)) + DigitVal(s[Len(s)])

\* sqlite's LIKE folds ASCII case and treats "_" as any one character
Lower(c) == IF c = "A" THEN "a" ELSE IF c = "B" THEN "b" ELSE c

LikeChar(p, c) == p = "_" \/ Lower(p) = Lower(c)

\* name LIKE prefix || '%'   (prefix holds no '%')
LikePrefix(name, prefix) ==
    /\ Len(prefix) <= Len(name)
    /\ \A i \in 1..Len(prefix) : LikeChar(prefix[i], name[i])

\* get_current_task that returns one of several Current tasks
get_current_task_any(d) ==
    LET current_tasks == {t \in d.tasks : t.status = CURRENT}
    IN  IF Cardinality(current_tasks) = 0 THEN Return(d, None, 0)
        ELSE Return(d, Some(CHOOSE t \in current_tasks :
                              \A o \in current_tasks : t.id <= o.id), 0)

get_current_task(d) ==
    LET current_tasks == {t \in d.tasks : t.status = CURRENT}
    IN  IF Cardinality(current_tasks) = 0 THEN Return(d, None, 0)
        ELSE IF Cardinality(current_tasks) > 1 THEN Raise(d, AssertionError, 0)
        ELSE Return(d, Some(CHOOSE t \in current_tasks : TRUE), 0)

\* get_task that takes the most recently modified of several matches
get_task_first_match(d, task_identifier, statuses) ==
    LET falsy == \/ task_identifier.kind = "none"
                 \/ task_identifier.kind = "int" /\ task_identifier.int = 0
                 \/ task_identifier.kind = "str" /\ task_identifier.str = <<>>
        by_id == task_identifier.kind = "int" \/ isdigit(task_identifier.str)
        wanted == IF task_identifier.kind = "int" THEN task_identifier.int
                  ELSE StrToInt(task_identifier.str)
        found == {t \in d.tasks :
                    /\ IF by_id THEN t.id = wanted
                       ELSE LikePrefix(t.name, task_identifier.str)
                    /\ statuses # {} => t.status \in statuses}
        current_task == get_current_task(d)
    IN  IF falsy
        THEN IF current_task.err # OK THEN current_task
             ELSE IF current_task.ret = None
                  THEN Raise(d, ThunterCouldNotFindTaskError, 0)
                  ELSE current_task
        ELSE IF Cardinality(found) = 0 THEN Raise(d, ThunterCouldNotFindTaskError, 0)
        ELSE Return(d, Some(CHOOSE t \in found :
                              \A o \in found : o.last_modified < t.last_modified
                                                \/ o.id <= t.id), 0)

\* get_task that matches the identifier alone, whatever statuses are asked for
get_task_any_status(d, task_identifier, statuses) ==
    LET falsy == \/ task_identifier.kind = "none"
                 \/ task_identifier.kind = "int" /\ task_identifier.int = 0
                 \/ task_identifier.kind = "str" /\ task_identifier.str = <<>>
        by_id == task_identifier.kind = "int" \/ isdigit(task_identifier.str)
        wanted == IF task_identifier.kind = "int" THEN task_identifier.int
                  ELSE StrToInt(task_identifier.str)
        found == {t \in d.tasks :
                    IF by_id THEN t.id = wanted
                    ELSE LikePrefix(t.name, task_identifier.str)}
        current_task == get_current_task(d)
    IN  IF falsy
        THEN IF current_task.err # OK THEN current_task
             ELSE IF current_task.ret = None
                  THEN Raise(d, ThunterCouldNotFindTaskError, 0)
                  ELSE current_task
        ELSE IF Cardinality(found) = 0 THEN Raise(d, ThunterCouldNotFindTaskError, 0)
        ELSE IF Cardinality(found) > 1 THEN Raise(d, ThunterFoundMultipleTasksError, 0)
        ELSE Return(d, Some(CHOOSE t \in found : TRUE), 0)

\* get_task that reads digits as a name prefix when no task has that id
get_task_digits_as_prefix(d, task_identifier, statuses) ==
    LET falsy == \/ task_identifier.kind = "none"
                 \/ task_identifier.kind = "int" /\ task_identifier.int = 0
                 \/ task_identifier.kind = "str" /\ task_identifier.str = <<>>
        by_id == task_identifier.kind = "int" \/ isdigit(task_identifier.str)
        wanted == IF task_identifier.kind = "int" THEN task_identifier.int
                  ELSE StrToInt(task_identifier.str)
        with_id == {t \in d.tasks : by_id /\ t.id = wanted}
        found == {t \in d.tasks :
                    /\ IF with_id # {} THEN t.id = wanted
                       ELSE task_identifier.kind = "str"
                            /\ LikePrefix(t.name, task_identifier.str)
                    /\ statuses # {} => t.status \in statuses}
        current_task == get_current_task(d)
    IN  IF falsy
        THEN IF current_task.err # OK THEN current_task
             ELSE IF current_task.ret = None
                  THEN Raise(d, ThunterCouldNotFindTaskError, 0)
                  ELSE current_task
        ELSE IF Cardinality(found) = 0 THEN Raise(d, ThunterCouldNotFindTaskError, 0)
        ELSE IF Cardinality(found) > 1 THEN Raise(d, ThunterFoundMultipleTasksError, 0)
        ELSE Return(d, Some(CHOOSE t \in found : TRUE), 0)

get_task(d, task_identifier, statuses) ==
    LET falsy == \/ task_identifier.kind = "none"
                 \/ task_identifier.kind = "int" /\ task_identifier.int = 0
                 \/ task_identifier.kind = "str" /\ task_identifier.str = <<>>
        by_id == task_identifier.kind = "int" \/ isdigit(task_identifier.str)
        wanted == IF task_identifier.kind = "int" THEN task_identifier.int
                  ELSE StrToInt(task_identifier.str)
        found == {t \in d.tasks :
                    /\ IF by_id THEN t.id = wanted
                       ELSE LikePrefix(t.name, task_identifier.str)
                    /\ statuses # {} => t.status \in statuses}
        current_task == get_current_task(d)
    IN  IF falsy
        THEN IF current_task.err # OK THEN current_task
             ELSE IF current_task.ret = None
                  THEN Raise(d, ThunterCouldNotFindTaskError, 0)
                  ELSE current_task
        ELSE IF Cardinality(found) = 0 THEN Raise(d, ThunterCouldNotFindTaskError, 0)
        ELSE IF Cardinality(found) > 1 THEN Raise(d, ThunterFoundMultipleTasksError, 0)
        ELSE Return(d, Some(CHOOSE t \in found : TRUE), 0)

\* ---------------------------------------------------------------- writes
insert_task(d, name, estimate, description, status, last_modified) ==
    LET new_task_id == lastrowid(d.tasks)
    IN  [d EXCEPT !.tasks = @ \cup {[id |-> new_task_id, name |-> name,
                                     estimate |-> estimate,
                                     description |-> description,
                                     status |-> status,
                                     last_modified |-> last_modified]}]

\* insert_history that overwrites the task's latest row when it has one
insert_history_overwrite(d, taskid, is_start, time) ==
    LET own == {h \in d.history : h.taskid = taskid}
        row == [id |-> IF own = {} THEN lastrowid(d.history) ELSE MaxOf({h.id : h \in own}),
                taskid |-> taskid, is_start |-> is_start, time |-> time]
    IN  [d EXCEPT !.history = {h \in @ : h.id # row.id} \cup {row}]

insert_history(d, taskid, is_start, time) ==
    [d EXCEPT !.history = @ \cup {[id |-> lastrowid(d.history), taskid |-> taskid,
                                   is_start |-> is_start, time |-> time]}]

\* update_task_field that leaves last_modified alone
update_task_field_keeps_time(d, taskid, field, value, t) ==
    [d EXCEPT !.tasks = {IF r.id = taskid THEN [r EXCEPT ![field] = value] ELSE r : r \in @}]

update_task_field(d, taskid, field, value, t) ==
    [d EXCEPT !.tasks = {IF r.id = taskid
                         THEN [r EXCEPT ![field] = value, !.last_modified = t]
                         ELSE r : r \in @}]

\* the two statements of remove_task, each committed by its own execute()
delete_task_sql(d, taskid) == [d EXCEPT !.tasks = {r \in @ : r.id # taskid}]

delete_history_sql(d, taskid) == [d EXCEPT !.history = {h \in @ : h.taskid # taskid}]

remove_task(d, taskid) ==
    [tasks |-> {r \in d.tasks : r.id # taskid},
     history |-> {h \in d.history : h.taskid # taskid}]

\* create_task that numbers the new task by the count of stored tasks
create_task_by_count(d, name, estimate, description, status, t) ==
    LET new_task_id == Cardinality(d.tasks) + 1
        d1 == [d EXCEPT !.tasks = {r \in @ : r.id # new_task_id}
                                     \cup {[id |-> new_task_id, name |-> name,
                                             estimate |-> estimate,
                                             description |-> description,
                                             status |-> status,
                                             last_modified |-> t]}]
        got == get_task(d1, IntIdent(new_task_id), {})
    IN  [got EXCEPT !.now = t]

create_task(d, name, estimate, description, status, t) ==
    LET new_task_id == lastrowid(d.tasks)
        d1 == insert_task(d, name, estimate, description, status, t)
        got == get_task(d1, IntIdent(new_task_id), {})
    IN  [got EXCEPT !.now = t]

estimate_task(d, taskid, estimate, t) ==
    Return(update_task_field(d, taskid, "estimate", estimate, t), None, t)

\* ------------------------------------------------------------- lifecycle
\* workon_task that leaves the previous task Current
workon_task_no_demote(d, task_identifier, ts) ==
    LET got == get_task(d, task_identifier, {})
        cur == get_current_task(d)
    IN  IF got.err # OK THEN got
        ELSE IF cur.err # OK THEN cur
        ELSE LET task == got.ret[1]
                 current_task == cur.ret
             IN  IF current_task # None /\ current_task[1].id = task.id
                 THEN Return(d, None, 0)
                 ELSE LET d1 == IF current_task # None
                                THEN insert_history(d, current_task[1].id, FALSE, ts[1])
                                ELSE d
                          d2 == insert_history(d1, task.id, TRUE, ts[3])
                      IN  Return(update_task_field(d2, task.id, "status", CURRENT, ts[4]),
                                 None, ts[4])

\* workon_task without the early return for the current task
workon_task_no_early_return(d, task_identifier, ts) ==
    LET got == get_task(d, task_identifier, {})
        cur == get_current_task(d)
    IN  IF got.err # OK THEN got
        ELSE IF cur.err # OK THEN cur
        ELSE LET task == got.ret[1]
                 current_task == cur.ret
                 d1 == IF current_task # None
                       THEN update_task_field(
                                insert_history(d, current_task[1].id, FALSE, ts[1]),
                                current_task[1].id, "status", IN_PROGRESS, ts[2])
                       ELSE d
                 d2 == insert_history(d1, task.id, TRUE, ts[3])
             IN  Return(update_task_field(d2, task.id, "status", CURRENT, ts[4]),
                        None, ts[4])

\* workon_task that demotes the previous task without recording its stop
workon_task_no_stop(d, task_identifier, ts) ==
    LET got == get_task(d, task_identifier, {})
        cur == get_current_task(d)
    IN  IF got.err # OK THEN got
        ELSE IF cur.err # OK THEN cur
        ELSE LET task == got.ret[1]
                 current_task == cur.ret
             IN  IF current_task # None /\ current_task[1].id = task.id
                 THEN Return(d, None, 0)
                 ELSE LET d1 == IF current_task # None
                                THEN update_task_field(d, current_task[1].id, "status",
                                                       IN_PROGRESS, ts[2])
                                ELSE d
                          d2 == insert_history(d1, task.id, TRUE, ts[3])
                      IN  Return(update_task_field(d2, task.id, "status", CURRENT, ts[4]),
                                 None, ts[4])

\* workon_task that clears the history of a Finished task it restarts
workon_task_reset_history(d, task_identifier, ts) ==
    LET got == get_task(d, task_identifier, {})
        cur == get_current_task(d)
    IN  IF got.err # OK THEN got
        ELSE IF cur.err # OK THEN cur
        ELSE LET task == got.ret[1]
                 current_task == cur.ret
             IN  IF current_task # None /\ current_task[1].id = task.id
                 THEN Return(d, None, 0)
                 ELSE LET d0 == IF task.status = FINISHED
                                THEN [d EXCEPT !.history = {h \in @ : h.taskid # task.id}]
                                ELSE d
                          d1 == IF current_task # None
                                THEN update_task_field(
                                         insert_history(d0, current_task[1].id, FALSE, ts[1]),
                                         current_task[1].id, "status", IN_PROGRESS, ts[2])
                                ELSE d0
                          d2 == insert_history(d1, task.id, TRUE, ts[3])
                      IN  Return(update_task_field(d2, task.id, "status", CURRENT, ts[4]),
                                 None, ts[4])

\* workon_task that stops the current task before it resolves the identifier
workon_task_stop_first(d, task_identifier, ts) ==
    LET cur == get_current_task(d)
        d1 == IF cur.err = OK /\ cur.ret # None
              THEN update_task_field(
                       insert_history(d, cur.ret[1].id, FALSE, ts[1]),
                       cur.ret[1].id, "status", IN_PROGRESS, ts[2])
              ELSE d
        got == get_task(d, task_identifier, {})
    IN  IF got.err # OK THEN [got EXCEPT !.db = d1]
        ELSE IF cur.err # OK THEN cur
        ELSE LET task == got.ret[1]
                 current_task == cur.ret
             IN  IF current_task # None /\ current_task[1].id = task.id
                 THEN Return(d, None, 0)
                 ELSE LET d2 == insert_history(d1, task.id, TRUE, ts[3])
                      IN  Return(update_task_field(d2, task.id, "status", CURRENT, ts[4]),
                                 None, ts[4])

workon_task(d, task_identifier, ts) ==
    LET got == get_task(d, task_identifier, {})
        cur == get_current_task(d)
    IN  IF got.err # OK THEN got
        ELSE IF cur.err # OK THEN cur
        ELSE LET task == got.ret[1]
                 current_task == cur.ret
             IN  IF current_task # None /\ current_task[1].id = task.id
                 THEN Return(d, None, 0)
                 ELSE LET d1 == IF current_task # None
                                THEN update_task_field(
                                         insert_history(d, current_task[1].id, FALSE, ts[1]),
                                         current_task[1].id, "status", IN_PROGRESS, ts[2])
                                ELSE d
                          d2 == insert_history(d1, task.id, TRUE, ts[3])
                      IN  Return(update_task_field(d2, task.id, "status", CURRENT, ts[4]),
                                 None, ts[4])

\* stop_current_task that records the stop but leaves the status
stop_current_task_keeps_status(d, ts) ==
    LET cur == get_current_task(d)
    IN  IF cur.err # OK THEN cur
        ELSE IF cur.ret = None THEN Return(d, None, 0)
        ELSE LET current_task == cur.ret[1]
                 d1 == insert_history(d, current_task.id, FALSE, ts[1])
             IN  [get_task(d1, IntIdent(current_task.id), {}) EXCEPT !.now = ts[1]]

\* stop_current_task that puts the task back to TODO
stop_current_task_to_todo(d, ts) ==
    LET cur == get_current_task(d)
    IN  IF cur.err # OK THEN cur
        ELSE IF cur.ret = None THEN Return(d, None, 0)
        ELSE LET current_task == cur.ret[1]
                 d1 == insert_history(d, current_task.id, FALSE, ts[1])
                 d2 == update_task_field(d1, current_task.id, "status", TODO, ts[2])
             IN  [get_task(d2, IntIdent(current_task.id), {}) EXCEPT !.now = ts[2]]

stop_current_task(d, ts) ==
    LET cur == get_current_task(d)
    IN  IF cur.err # OK THEN cur
        ELSE IF cur.ret = None THEN Return(d, None, 0)
        ELSE LET current_task == cur.ret[1]
                 d1 == insert_history(d, current_task.id, FALSE, ts[1])
                 d2 == update_task_field(d1, current_task.id, "status", IN_PROGRESS, ts[2])
             IN  [get_task(d2, IntIdent(current_task.id), {}) EXCEPT !.now = ts[2]]

\* finish_task that writes the status even when the task is Finished
finish_task_always_writes(d, taskid, ts) ==
    LET got == get_task(d, IntIdent(taskid), {})
    IN  IF got.err # OK THEN got
        ELSE LET task == got.ret[1]
                 d1 == IF task.status = CURRENT
                       THEN insert_history(d, task.id, FALSE, ts[1])
                       ELSE d
             IN  Return(update_task_field(d1, task.id, "status", FINISHED, ts[2]),
                        None, ts[2])

\* finish_task that closes no interval
finish_task_no_stop(d, taskid, ts) ==
    LET got == get_task(d, IntIdent(taskid), {})
    IN  IF got.err # OK THEN got
        ELSE LET task == got.ret[1]
                 d1 == d
             IN  IF task.status # FINISHED
                 THEN Return(update_task_field(d1, task.id, "status", FINISHED, ts[2]),
                             None, ts[2])
                 ELSE Return(d1, None, 0)

\* finish_task that appends a stop record for every unfinished task
finish_task_stops_unfinished(d, taskid, ts) ==
    LET got == get_task(d, IntIdent(taskid), {})
    IN  IF got.err # OK THEN got
        ELSE LET task == got.ret[1]
                 d1 == IF task.status # FINISHED
                       THEN insert_history(d, task.id, FALSE, ts[1])
                       ELSE d
             IN  IF task.status # FINISHED
                 THEN Return(update_task_field(d1, task.id, "status", FINISHED, ts[2]),
                             None, ts[2])
                 ELSE Return(d1, None, 0)

finish_task(d, taskid, ts) ==
    LET got == get_task(d, IntIdent(taskid), {})
    IN  IF got.err # OK THEN got
        ELSE LET task == got.ret[1]
                 d1 == IF task.status = CURRENT
                       THEN insert_history(d, task.id, FALSE, ts[1])
                       ELSE d
             IN  IF task.status # FINISHED
                 THEN Return(update_task_field(d1, task.id, "status", FINISHED, ts[2]),
                             None, ts[2])
                 ELSE Return(d1, None, 0)

\* ------------------------------------------------------------------ model
\* an ordering by task id and time alone, rows of equal time in rowid order
HistoryLessNoKind(a, b) ==
    \/ a.taskid < b.taskid
    \/ a.taskid = b.taskid /\ a.time < b.time
    \/ a.taskid = b.taskid /\ a.time = b.time /\ a.id < b.id

\* TaskHistoryRecord.__lt__, with the table's rowid order between equal keys
\* (sorted() is stable and the SELECT scans the table in rowid order).
HistoryLess(a, b) ==
    \/ a.taskid < b.taskid
    \/ a.taskid = b.taskid /\ a.time < b.time
    \/ a.taskid = b.taskid /\ a.time = b.time /\ a.is_start /\ ~b.is_start
    \/ a.taskid = b.taskid /\ a.time = b.time /\ a.is_start = b.is_start /\ a.id < b.id

RECURSIVE sorted(_)
sorted(rows) ==
    IF rows = {} THEN <<>>
    ELSE LET first == CHOOSE r \in rows : \A o \in rows \ {r} : HistoryLess(r, o)
         IN  <<first>> \o sorted(rows \ {first})

get_history(d, taskids) == sorted({h \in d.history : h.taskid \in taskids})

\* name LIKE '%' || infix || '%'   (infix holds no '%')
LikeContains(name, infix) ==
    \E k \in 0..(Len(name) - Len(infix)) :
        \A i \in 1..Len(infix) : LikeChar(infix[i], name[k + i])

StatusIndex(status) == CHOOSE i \in 1..Len(STATUS_ORDERING) : STATUS_ORDERING[i] = status

\* Task.__lt__, with the table's rowid order between equal keys
TaskLess(a, b) ==
    \/ StatusIndex(a.status) < StatusIndex(b.status)
    \/ /\ StatusIndex(a.status) = StatusIndex(b.status)
       /\ -a.last_modified < -b.last_modified
    \/ /\ StatusIndex(a.status) = StatusIndex(b.status)
       /\ a.last_modified = b.last_modified
       /\ a.id < b.id

RECURSIVE sorted_tasks(_)
sorted_tasks(rows) ==
    IF rows = {} THEN <<>>
    ELSE LET first == CHOOSE r \in rows : \A o \in rows \ {r} : TaskLess(r, o)
         IN  <<first>> \o sorted_tasks(rows \ {first})

\* a filter that is None, empty or "" adds no WHERE clause
get_tasks(d, statuses, starts_with, contains) ==
    sorted_tasks({t \in d.tasks :
                    /\ (starts_with # None /\ starts_with[1] # <<>>)
                          => LikePrefix(t.name, starts_with[1])
                    /\ (contains # None /\ contains[1] # <<>>)
                          => LikeContains(t.name, contains[1])
                    /\ statuses # {} => t.status \in statuses})

\* calc_progress: the loop state is <<err, progress, start_time>>
RECURSIVE calc_loop(_, _, _)
calc_loop(hist, prog, start_time) ==
    IF hist = <<>> THEN [err |-> OK, progress |-> prog, start_time |-> start_time]
    ELSE IF Head(hist).is_start
         THEN calc_loop(Tail(hist), prog, Some(Head(hist).time))
         ELSE IF start_time = None
              THEN [err |-> TypeError, progress |-> prog, start_time |-> start_time]
              ELSE calc_loop(Tail(hist), prog + Head(hist).time - start_time[1], None)

\* calc_progress that keeps only the last interval instead of adding them up
RECURSIVE calc_loop_last(_, _, _)
calc_loop_last(hist, prog, start_time) ==
    IF hist = <<>> THEN [err |-> OK, progress |-> prog, start_time |-> start_time]
    ELSE IF Head(hist).is_start
         THEN calc_loop_last(Tail(hist), prog, Some(Head(hist).time))
         ELSE IF start_time = None
              THEN [err |-> TypeError, progress |-> prog, start_time |-> start_time]
              ELSE calc_loop_last(Tail(hist), Head(hist).time - start_time[1], None)

calc_progress_last_interval(hist, time_now) ==
    LET l == calc_loop_last(hist, 0, None)
    IN  IF l.err # OK THEN [err |-> l.err, ret |-> 0]
        ELSE IF hist # <<>> /\ l.start_time # None /\ l.start_time[1] # 0
             THEN [err |-> OK, ret |-> l.progress + time_now - l.start_time[1]]
             ELSE [err |-> OK, ret |-> l.progress]

calc_progress(hist, time_now) ==
    LET l == calc_loop(hist, 0, None)
    IN  IF l.err # OK THEN [err |-> l.err, ret |-> 0]
        ELSE IF hist # <<>> /\ l.start_time # None /\ l.start_time[1] # 0
             THEN [err |-> OK, ret |-> l.progress + time_now - l.start_time[1]]
             ELSE [err |-> OK, ret |-> l.progress]

\* ------------------------------------------------------------ text codec
\* the loop without its check of the times
RECURSIVE validate_loop_any_order(_, _, _)
validate_loop_any_order(hist, expect_start, last_history_time) ==
    IF hist = <<>> THEN OK
    ELSE IF Head(hist).is_start # expect_start
         THEN "History must alternate between Start and Stop"
    ELSE validate_loop_any_order(Tail(hist), ~expect_start, Head(hist).time)

\* the loop with a check of the times that lets equal times pass
RECURSIVE validate_loop_equal_times(_, _, _)
validate_loop_equal_times(hist, expect_start, last_history_time) ==
    IF hist = <<>> THEN OK
    ELSE IF ~(last_history_time <= Head(hist).time)
         THEN "History must be in ascending order by time"
    ELSE IF Head(hist).is_start # expect_start
         THEN "History must alternate between Start and Stop"
    ELSE validate_loop_equal_times(Tail(hist), ~expect_start, Head(hist).time)

\* The loop of validate_task_data: first failing assertion, or OK.
RECURSIVE validate_loop(_, _, _)
validate_loop(hist, expect_start, last_history_time) ==
    IF hist = <<>> THEN OK
    ELSE IF ~(last_history_time < Head(hist).time)
         THEN "History must be in ascending order by time"
    ELSE IF Head(hist).is_start # expect_start
         THEN "History must alternate between Start and Stop"
    ELSE validate_loop(Tail(hist), ~expect_start, Head(hist).time)

\* validate_task_data without the rules that tie the status to the history
validate_task_data_history_only(task_data) == validate_loop(task_data.history, TRUE, 0)

validate_task_data(task_data) ==
    LET hist == task_data.history
    IN  IF task_data.status = TODO /\ Len(hist) # 0
        THEN "Can't have a history if the status is TODO"
        ELSE IF task_data.status # TODO /\ ~(Len(hist) > 0)
        THEN "Must have a history if status is"
        ELSE IF task_data.status = CURRENT /\ ~hist[Len(hist)].is_start
        THEN "Last history record must be a Start if the status is Current"
        ELSE IF task_data.status \in {IN_PROGRESS, FINISHED} /\ hist[Len(hist)].is_start
        THEN "Last history record must be a Stop if the status is"
        ELSE validate_loop(hist, TRUE, 0)

\* TaskVisitor.visit_task on the fields the grammar extracted
visit_task(task_data) ==
    IF validate_task_data(task_data) = OK
    THEN [err |-> OK, ret |-> Some(task_data)]
    ELSE [err |-> ThunterTaskValidationError, ret |-> None]

\* A text is a sequence of lines; a line is the literal it begins with, the
\* characters that follow, and for a history record the rendered time.
Line(label, text, stamp) == [label |-> label, text |-> text, stamp |-> stamp]

NoneText == <<"N", "o", "n", "e">>

RECURSIVE IntToStr(_)
IntToStr(n) == IF n < 10 THEN <<Digits[n + 1]>>
               ELSE IntToStr(n \div 10) \o <<Digits[(n % 10) + 1]>>

\* display_time: the local wall-clock reading of a Unix timestamp, in a zone
\* utc_offset seconds ahead of UTC
display_time(time, utc_offset) == time + utc_offset

\* display_task; "%s" renders None as the text None
display_task(task, hist, utc_offset) ==
    <<Line("NAME:", <<" ">> \o task.name, None),
      Line("ESTIMATE:",
           <<" ">> \o (IF task.estimate = None THEN NoneText
                       ELSE IntToStr(task.estimate[1])), None),
      Line("STATUS:", <<" ", task.status>>, None),
      Line("DESCRIPTION:",
           <<" ">> \o (IF task.description = None THEN NoneText
                       ELSE task.description[1]), None),
      Line("", <<>>, None),
      Line("HISTORY", <<>>, None)>>
    \o [i \in 1..Len(hist) |->
          Line(IF hist[i].is_start THEN "Start" ELSE "Stop", <<"\t">>,
               Some(display_time(hist[i].time, utc_offset)))]

\* code points of the characters the texts are made of (0: not one character)
ord(c) ==
    CASE c = "\t" -> 9
      [] c = " " -> 32
      [] c = "#" -> 35
      [] c = "N" -> 78
      [] c = "a" -> 97
      [] c = "e" -> 101
      [] c = "n" -> 110
      [] c = "o" -> 111
      [] isdigit(<<c>>) -> 48 + DigitVal(c)
      [] OTHER -> 0

\* whitespace = ~"[ \t]+"
whitespace(c) == ord(c) = 32 \/ ord(c) = 9

\* word = ~"[0-9a-zA-Z.!?&-_]+" : "&-_" is the range from "&" to "_"
word(c) ==
    LET o == ord(c)
    IN  \/ o \in 48..57
        \/ o \in 97..122
        \/ o \in 65..90
        \/ o \in {46, 33, 63}
        \/ o \in 38..95

\* the text between the optional whitespace on either side
RECURSIVE lstrip(_)
lstrip(text) == IF text # <<>> /\ whitespace(Head(text)) THEN lstrip(Tail(text)) ELSE text

RECURSIVE rstrip(_)
rstrip(text) == IF text # <<>> /\ whitespace(text[Len(text)])
                THEN rstrip(SubSeq(text, 1, Len(text) - 1)) ELSE text

\* phrase = word (whitespace word)*
phrase(text) ==
    /\ text # <<>>
    /\ \A i \in 1..Len(text) : word(text[i]) \/ whitespace(text[i])

\* int = ~"[1-9][0-9]*" / "None"
int(text) == text = NoneText \/ (isdigit(text) /\ text[1] # "0")

\* status_type = "Current" / "TODO" / "In Progress" / "Finished"
status_type(text) == Len(text) = 1 /\ text[1] \in Status

visit_estimate(text) == IF isdigit(text) THEN Some(StrToInt(text)) ELSE None

visit_description(text) == IF text = NoneText THEN None ELSE Some(text)

\* visit_time: calendar.timegm reads the rendered time as UTC
visit_time(stamp) == stamp

\* the grammar: the text is the five fields in order, then the records
grammar(lines) ==
    /\ Len(lines) >= 5
    /\ lines[1].label = "NAME:" /\ phrase(rstrip(lstrip(lines[1].text)))
    /\ lines[2].label = "ESTIMATE:" /\ int(rstrip(lstrip(lines[2].text)))
    /\ lines[3].label = "STATUS:" /\ status_type(lstrip(lines[3].text))
    /\ lines[4].label = "DESCRIPTION:" /\ phrase(rstrip(lstrip(lines[4].text)))
    /\ lines[5].label = "HISTORY" /\ lstrip(lines[5].text) = <<>>
    /\ \A i \in 6..Len(lines) :
          /\ lines[i].label \in {"Start", "Stop"}
          /\ lines[i].text # <<>>
          /\ lstrip(lines[i].text) = <<>>
          /\ lines[i].stamp # None

\* NodeVisitor.visit: an exception a visit_ method raises leaves as a
\* VisitationError
visit(r) == IF r.err = OK THEN r ELSE [r EXCEPT !.err = VisitationError]

IsBlank(line) == line.label = "" /\ line.text = <<>>

\* parse_task_display: [err, ret, message]
parse_task_display(text) ==
    LET lines == SelectSeq(text, LAMBDA l : ~IsBlank(l))
    IN  IF ~grammar(lines) THEN [err |-> ParseError, ret |-> None, message |-> ""]
        ELSE LET task_data ==
                   [name |-> rstrip(lstrip(lines[1].text)),
                    estimate |-> visit_estimate(rstrip(lstrip(lines[2].text))),
                    description |-> visit_description(rstrip(lstrip(lines[4].text))),
                    status |-> lstrip(lines[3].text)[1],
                    history |-> [i \in 1..(Len(lines) - 5) |->
                                   [is_start |-> lines[i + 5].label = "Start",
                                    time |-> visit_time(lines[i + 5].stamp[1])]]]
                 r == visit(visit_task(task_data))
             IN  [err |-> r.err, ret |-> r.ret,
                  message |-> validate_task_data(task_data)]

\* ----------------------------------------------------------- CLI commands
OPEN == {CURRENT, IN_PROGRESS, TODO}

create(d, name, estimate, description, ts) ==
    create_task(d, name, estimate, description, TODO, ts[1])

\* workon that resolves its identifier among the tasks of every status
workon_any_status(d, task_id_str, create_flag, estimate_hours, description, ts) ==
    LET got == get_task(d, task_id_str, {})
        made == create_task(d, task_id_str.str, estimate_hours, description, TODO, ts[1])
        task == IF got.err = OK THEN got
                ELSE IF got.err = ThunterCouldNotFindTaskError
                        /\ task_id_str.kind = "str" /\ task_id_str.str # <<>>
                        /\ create_flag
                     THEN made
                     ELSE got
    IN  IF task.err # OK THEN task
        ELSE LET r == workon_task(task.db, IntIdent(task.ret[1].id), Tail(ts))
             IN  IF r.now = 0 THEN [r EXCEPT !.now = task.now] ELSE r

workon(d, task_id_str, create_flag, estimate_hours, description, ts) ==
    LET got == get_task(d, task_id_str, OPEN)
        made == create_task(d, task_id_str.str, estimate_hours, description, TODO, ts[1])
        task == IF got.err = OK THEN got
                ELSE IF got.err = ThunterCouldNotFindTaskError
                        /\ task_id_str.kind = "str" /\ task_id_str.str # <<>>
                        /\ create_flag
                     THEN made
                     ELSE got
    IN  IF task.err # OK THEN task
        ELSE LET r == workon_task(task.db, IntIdent(task.ret[1].id), Tail(ts))
             IN  IF r.now = 0 THEN [r EXCEPT !.now = task.now] ELSE r

restart(d, task_id, ts) ==
    LET task == get_task(d, task_id, {FINISHED})
    IN  IF task.err # OK THEN task
        ELSE workon_task(d, IntIdent(task.ret[1].id), ts)

stop(d, ts) == stop_current_task(d, ts)

finish(d, task_id, ts) ==
    LET task == IF task_id.kind = "str" /\ task_id.str # <<>>
                THEN get_task(d, task_id, {})
                ELSE stop_current_task(d, ts)
    IN  IF task.err # OK THEN task
        ELSE IF task.ret = None THEN task
        ELSE LET r == finish_task(task.db, task.ret[1].id, SubSeq(ts, 3, 4))
             IN  IF r.now = 0 THEN [r EXCEPT !.now = task.now] ELSE r

estimate(d, est, task_identifier, ts) ==
    LET task == IF task_identifier.kind = "str" /\ task_identifier.str # <<>>
                THEN get_task(d, task_identifier, {})
                ELSE get_current_task(d)
    IN  IF task.err # OK THEN task
        ELSE IF task.ret = None THEN Raise(d, ThunterCouldNotFindTaskError, 0)
        ELSE LET r == estimate_task(d, task.ret[1].id, Some(est), ts[1])
             IN  [get_task(r.db, IntIdent(task.ret[1].id), {}) EXCEPT !.now = ts[1]]

rm(d, task_id, user_is_sure) ==
    LET task == get_task(d, task_id, {})
    IN  IF task.err # OK THEN task
        ELSE IF user_is_sure THEN Return(remove_task(d, task.ret[1].id), None, 0)
        ELSE Return(d, None, 0)

RECURSIVE insert_all(_, _, _)
insert_all(d, taskid, hist) ==
    IF hist = <<>> THEN d
    ELSE insert_all(insert_history(d, taskid, Head(hist).is_start, Head(hist).time),
                    taskid, Tail(hist))

\* edit: task_data is what the grammar extracted from the text the editor left
edit(d, task_identifier, task_data, ts) ==
    LET task == IF task_identifier.kind = "str" /\ task_identifier.str # <<>>
                THEN get_task(d, task_identifier, {})
                ELSE get_current_task(d)
        parsed_task_data == visit(visit_task(task_data))
    IN  IF task.err # OK THEN task
        ELSE IF task.ret = None THEN Return(d, None, 0)
        ELSE IF parsed_task_data.err # OK THEN Raise(d, parsed_task_data.err, 0)
        ELSE LET p == parsed_task_data.ret[1]
                 d1 == remove_task(d, task.ret[1].id)
                 new_updated_task == create_task(d1, p.name, p.estimate, p.description,
                                                 p.status, ts[1])
             IN  Return(insert_all(new_updated_task.db, new_updated_task.ret[1].id,
                                   p.history),
                        new_updated_task.ret, ts[1])

\* edit that deletes the task row before it parses the text
edit_begin_remove_first(d, taskid, text) ==
    LET parsed_task_data == parse_task_display(text)
    IN  [err |-> parsed_task_data.err, db |-> delete_task_sql(d, taskid),
         ret |-> parsed_task_data.ret, now |-> 0]

\* edit from the text the editor left to its first committed write, the DELETE
\* of the task row: parse_task_display raises before anything is written
edit_begin(d, taskid, text) ==
    LET parsed_task_data == parse_task_display(text)
    IN  IF parsed_task_data.err # OK THEN Raise(d, parsed_task_data.err, 0)
        ELSE [err |-> OK, db |-> delete_task_sql(d, taskid),
              ret |-> parsed_task_data.ret, now |-> 0]

\* ---------------------------------------------------------------- actions
\* what the last command did: its name, the error it raised, and when it ran
\* through, the task it resolved (id, status before) and the task that was
\* Current before, and the id of the task it returned
NoOutcome == [op |-> "init", err |-> OK, task |-> 0, was |-> "", prev |-> 0, ret |-> 0]

\* what create and workon --create are given
CreateInputs ==
    {[name |-> <<"a">>, estimate |-> None, description |-> None],
     [name |-> <<"a", "b">>, estimate |-> Some(1), description |-> Some("d")]}

\* the bounds of one specification, and the tasks it creates
Bounds(i, h, t, c) == [ids |-> i, hist |-> h, time |-> t, creates |-> c]

LifeBounds == Bounds(MaxId, MaxHist, MaxTime, CreateInputs)

EditBounds ==
    Bounds(MaxEditId, MaxEditHist, MaxEditTime, {c \in CreateInputs : c.estimate = None})

\* now(): the n successive clock reads of one command, during which at most
\* MaxDrift seconds turn over
Reads(B, n) ==
    {ts \in [1..n -> clock..(IF clock + MaxDrift <= B.time THEN clock + MaxDrift
                                                          ELSE B.time)] :
        \A i \in 1..(n - 1) : ts[i] <= ts[i + 1]}

\* what the command line passes: nothing, or a string (digits or a name)
IdIdents(B) == {NoIdent} \cup {StrIdent(<<Digits[n + 1]>>) : n \in 1..B.ids}

CliIdents(B) == IdIdents(B) \cup {StrIdent(s) : s \in Names}

EstimateInputs == {0, 1}

ParsedHistories(B) ==
    UNION {[1..n -> [is_start : BOOLEAN, time : 1..B.time]] : n \in 0..MaxLen}

\* HISTORY blocks the user types: every alternating, strictly ascending one,
\* and the malformed ones of the parser's tests
Malformed ==
    {<<[is_start |-> FALSE, time |-> 1]>>,
     <<[is_start |-> TRUE, time |-> 1], [is_start |-> TRUE, time |-> 1]>>,
     <<[is_start |-> TRUE, time |-> 2], [is_start |-> FALSE, time |-> 1]>>}

EditHistories(B) ==
    {h \in ParsedHistories(B) :
        /\ \A i \in 1..Len(h) : h[i].is_start = (i % 2 = 1)
        /\ \A i \in 1..(Len(h) - 1) : h[i].time < h[i + 1].time} \cup Malformed

\* what the grammar extracts once the user has rewritten the STATUS line and
\* the HISTORY block of the displayed task
EditInputs(B, task) ==
    IF task = None THEN {[name |-> <<"a">>, estimate |-> None, description |-> None,
                          status |-> TODO, history |-> <<>>]}
    ELSE {[name |-> task[1].name, estimate |-> task[1].estimate,
           description |-> task[1].description, status |-> s, history |-> h] :
             s \in Status, h \in EditHistories(B)}

CurrentIds(d) == {t.id : t \in {x \in d.tasks : x.status = CURRENT}}

PrevOf(d) == IF CurrentIds(d) = {} THEN 0
             ELSE IF Cardinality(CurrentIds(d)) > 1 THEN -1
             ELSE CHOOSE i \in CurrentIds(d) : TRUE

\* the command's result becomes the new state; the bounds close the run
Commit(B, r, op, target) ==
    \E res \in {r} :
        /\ \A t \in res.db.tasks : t.id <= B.ids
        /\ \A h \in res.db.history : h.id <= B.hist
        /\ tasks' = res.db.tasks
        /\ history' = res.db.history
        /\ clock' = IF res.now = 0 THEN clock ELSE res.now
        /\ outcome' = IF res.err # OK
                       THEN [NoOutcome EXCEPT !.op = op, !.err = res.err]
                       ELSE [op |-> op, err |-> OK,
                             task |-> IF target = None THEN 0 ELSE target[1].id,
                             was |-> IF target = None THEN "" ELSE target[1].status,
                             prev |-> PrevOf(db),
                             ret |-> IF res.ret = None THEN 0 ELSE res.ret[1].id]
        /\ UNCHANGED <<task_history, progress, codec, lookup, api>>

Tick(B) ==
    /\ clock < B.time
    /\ clock' = clock + 1
    /\ outcome' = [NoOutcome EXCEPT !.op = "tick"]
    /\ UNCHANGED <<tasks, history, task_history, progress, codec, lookup, api>>

Create(B) ==
    \E c \in B.creates, ts \in Reads(B, 1) :
        Commit(B, create(db, c.name, c.estimate, c.description, ts), "create", None)

Workon(B) ==
    \E i \in CliIdents(B), create_flag \in BOOLEAN, c \in B.creates, ts \in Reads(B, 5) :
        /\ IF create_flag THEN i.str = c.name ELSE c.estimate = None
        /\ Commit(B, workon(db, i, create_flag, c.estimate, c.description, ts),
                  "workon", get_task(db, i, OPEN).ret)

Restart(B) ==
    \E i \in IdIdents(B) \ {NoIdent}, ts \in Reads(B, 4) :
        Commit(B, restart(db, i, ts), "restart", get_task(db, i, {FINISHED}).ret)

Stop(B) ==
    \E ts \in Reads(B, 2) :
        Commit(B, stop(db, ts), "stop", get_current_task(db).ret)

Finish(B) ==
    \E i \in IdIdents(B), ts \in Reads(B, 4) :
        Commit(B, finish(db, i, ts), IF i = NoIdent THEN "finish_current" ELSE "finish",
               get_task(db, i, {}).ret)

Estimate(B) ==
    \E i \in IdIdents(B), est \in EstimateInputs, ts \in Reads(B, 1) :
        Commit(B, estimate(db, est, i, ts), "estimate", get_task(db, i, {}).ret)

Rm(B) ==
    \E i \in IdIdents(B) \ {NoIdent}, user_is_sure \in BOOLEAN :
        Commit(B, rm(db, i, user_is_sure), "rm",
               IF user_is_sure THEN get_task(db, i, {}).ret ELSE None)

Edit(B) ==
    \E i \in IdIdents(B), ts \in Reads(B, 1) :
        \E task_data \in EditInputs(B, get_task(db, i, {}).ret) :
            Commit(B, edit(db, i, task_data, ts), "edit", get_task(db, i, {}).ret)

Init ==
    /\ tasks = {}
    /\ history = {}
    /\ clock = 1
    /\ outcome = NoOutcome
    /\ task_history = <<>>
    /\ progress = 0
    /\ task_display = <<>>
    /\ parsed_data = None
    /\ message = ""
    /\ lookup = None
    /\ listed = <<>>
    /\ call = None

\* every user operation
Next ==
    \/ Tick(EditBounds)
    \/ Create(EditBounds)
    \/ Workon(EditBounds)
    \/ Restart(EditBounds)
    \/ Stop(EditBounds)
    \/ Finish(EditBounds)
    \/ Estimate(EditBounds)
    \/ Rm(EditBounds)
    \/ Edit(EditBounds)

Spec == Init /\ [][Next]_vars

\* the lifecycle operations alone
NextLife ==
    \/ Tick(LifeBounds)
    \/ Create(LifeBounds)
    \/ Workon(LifeBounds)
    \/ Restart(LifeBounds)
    \/ Stop(LifeBounds)
    \/ Finish(LifeBounds)

SpecLife == Init /\ [][NextLife]_vars

\* calc_progress as the ls command applies it to one task's history
HistoryInputs ==
    UNION {[1..n -> [id : {1}, taskid : {1}, is_start : BOOLEAN, time : 0..MaxStamp]] :
             n \in 0..MaxRecs}

InitProgress ==
    /\ tasks = {}
    /\ history = {}
    /\ clock \in 1..MaxStamp
    /\ outcome = NoOutcome
    /\ task_history \in HistoryInputs
    /\ progress = 0
    /\ task_display = <<>>
    /\ parsed_data = None
    /\ message = ""
    /\ lookup = None
    /\ listed = <<>>
    /\ call = None

CalcProgress ==
    LET r == calc_progress(task_history, clock)
    IN  /\ outcome.op = "init"
        /\ progress' = r.ret
        /\ outcome' = [NoOutcome EXCEPT !.op = "calc_progress", !.err = r.err]
        /\ UNCHANGED <<tasks, history, clock, task_history, codec, lookup, api>>

NextProgress == CalcProgress

SpecProgress == InitProgress /\ [][NextProgress]_vars

\* validate_task_data as the parser's tests call it, on any ParsedTaskData
ValidateInputs ==
    {[name |-> <<"a">>, estimate |-> None, description |-> None,
      status |-> s, history |-> h] :
        s \in Status,
        h \in UNION {[1..n -> [is_start : BOOLEAN, time : 0..MaxStamp]] :
                       n \in 0..MaxParsed}}

InitValidate ==
    /\ tasks = {}
    /\ history = {}
    /\ clock = 1
    /\ outcome = NoOutcome
    /\ task_history = <<>>
    /\ progress = 0
    /\ task_display = <<>>
    /\ parsed_data \in {Some(d) : d \in ValidateInputs}
    /\ message = ""
    /\ lookup = None
    /\ listed = <<>>
    /\ call = None

\* thunter_assert: the first failing rule raises ThunterTaskValidationError
Validate ==
    LET r == validate_task_data(parsed_data[1])
    IN  /\ outcome.op = "init"
        /\ message' = r
        /\ outcome' = [NoOutcome EXCEPT
                          !.op = "validate_task_data",
                          !.err = IF r = OK THEN OK ELSE ThunterTaskValidationError]
        /\ UNCHANGED <<tasks, history, clock, task_history, progress,
                       task_display, parsed_data, lookup, api>>

NextValidate == Validate

SpecValidate == InitValidate /\ [][NextValidate]_vars

\* the text codec: a stored task whose history is valid for its status is
\* displayed, possibly edited, and parsed
CodecChars == {"a", " ", "#"}

CodecTexts == UNION {[1..n -> CodecChars] : n \in 1..MaxName}

CodecHistories ==
    UNION {[1..n -> [id : {1}, taskid : {1}, is_start : BOOLEAN, time : 1..MaxStamp]] :
             n \in 0..MaxStamp}

CodecTasks ==
    {[id |-> 1, name |-> n, estimate |-> e, description |-> d, status |-> s,
      last_modified |-> 1] :
        n \in CodecTexts, e \in {None, Some(1)},
        d \in {None, Some(<<"a">>), Some(<<"a", " ", "#">>), Some(NoneText)},
        s \in Status}

\* zones the process may run in, in seconds ahead of UTC
UtcOffsets == {-1, 0, 1}

InitCodec ==
    /\ \E t \in CodecTasks, h \in CodecHistories :
          /\ validate_task_data([status |-> t.status, history |-> h]) = OK
          /\ tasks = {t}
          /\ task_history = h
    /\ history = {}
    /\ clock = 1
    /\ outcome = NoOutcome
    /\ progress = 0
    /\ task_display = <<>>
    /\ parsed_data = None
    /\ message = ""
    /\ lookup = None
    /\ listed = <<>>
    /\ call = None

TheTask == CHOOSE t \in tasks : TRUE

\* TaskHunter.display_task
Display ==
    \E utc_offset \in UtcOffsets :
        /\ outcome.op = "init"
        /\ task_display' = display_task(TheTask, task_history, utc_offset)
        /\ outcome' = [NoOutcome EXCEPT !.op = "display_task"]
        /\ UNCHANGED <<tasks, history, clock, task_history, progress,
                       parsed_data, message, lookup, api>>

\* what the user does to the text in the editor: another status word (one the
\* grammar knows, or not), or a line deleted
Editor ==
    /\ outcome.op = "display_task"
    /\ \/ \E s \in Status \cup {"Done"} :
             /\ s # TheTask.status
             /\ task_display' = [task_display EXCEPT ![3].text = <<" ", s>>]
       \/ \E i \in 1..Len(task_display) :
             task_display' = SubSeq(task_display, 1, i - 1)
                               \o SubSeq(task_display, i + 1, Len(task_display))
    /\ outcome' = [NoOutcome EXCEPT !.op = "editor"]
    /\ UNCHANGED <<tasks, history, clock, task_history, progress,
                   parsed_data, message, lookup, api>>

\* parse_task_display on the text; was: whether the editor changed it
Parse ==
    LET r == parse_task_display(task_display)
    IN  /\ outcome.op \in {"display_task", "editor"}
        /\ parsed_data' = r.ret
        /\ message' = r.message
        /\ outcome' = [NoOutcome EXCEPT !.op = "parse_task_display",
                                        !.err = r.err, !.was = outcome.op]
        /\ UNCHANGED <<tasks, history, clock, task_history, progress,
                       task_display, lookup, api>>

NextCodec ==
    \/ Display
    \/ Editor
    \/ Parse

SpecCodec == InitCodec /\ [][NextCodec]_vars

\* get_task as the API offers it, on any store of up to MaxLookupId tasks
LookupNames == {<<"a">>, <<"a", "b">>, <<"B">>, <<"2">>}

LookupRows(i) ==
    {[id |-> i, name |-> n, estimate |-> None, description |-> None, status |-> s,
      last_modified |-> 1] : n \in LookupNames, s \in Status}

\* every store that holds, for each id, no row or one row
LookupStores ==
    {UNION {{[r EXCEPT !.id = i] : r \in f[i]} : i \in 1..MaxLookupId} :
        f \in [1..MaxLookupId -> {{}} \cup {{r} : r \in LookupRows(1)}]}

LookupIdents ==
    {NoIdent} \cup {IntIdent(n) : n \in 0..(MaxLookupId + 1)}
    \cup {StrIdent(s) : s \in {<<>>, <<"a">>, <<"A">>, <<"a", "b">>, <<"b">>, <<"_">>,
                               <<"0">>, <<"1">>, <<"2">>}}

LookupStatuses == {{}, {FINISHED}, OPEN}

InitLookup ==
    /\ tasks \in LookupStores
    /\ history = {}
    /\ clock = 1
    /\ outcome = NoOutcome
    /\ task_history = <<>>
    /\ progress = 0
    /\ task_display = <<>>
    /\ parsed_data = None
    /\ message = ""
    /\ lookup = None
    /\ listed = <<>>
    /\ call = None

\* one get_task call: lookup keeps its arguments
GetTask ==
    \E task_identifier \in LookupIdents, statuses \in LookupStatuses :
        \E res \in {get_task(db, task_identifier, statuses)} :
            /\ lookup = None
            /\ lookup' = Some([task_identifier |-> task_identifier, statuses |-> statuses])
            /\ tasks' = res.db.tasks
            /\ history' = res.db.history
            /\ outcome' = [NoOutcome EXCEPT
                              !.op = "get_task",
                              !.err = res.err,
                              !.ret = IF res.ret = None THEN 0 ELSE res.ret[1].id]
            /\ UNCHANGED <<clock, task_history, progress, codec, api>>

NextLookup == GetTask

SpecLookup == InitLookup /\ [][NextLookup]_vars

\* get_tasks as the ls command calls it, on any store of up to MaxListId tasks
ListNames == {<<"a", "b">>, <<"B">>}

ListRows(i) ==
    {[id |-> i, name |-> n, estimate |-> None, description |-> None, status |-> s,
      last_modified |-> m] : n \in ListNames, s \in Status, m \in 1..MaxListTime}

\* every store that holds, for each id, no row or one row
ListStores ==
    {UNION {{[r EXCEPT !.id = i] : r \in f[i]} : i \in 1..MaxListId} :
        f \in [1..MaxListId -> {{}} \cup {{r} : r \in ListRows(1)}]}

ListPrefixes == {None, Some(<<"a">>), Some(<<"A">>), Some(<<"_">>)}

ListInfixes == {None, Some(<<>>), Some(<<"b">>)}

InitList ==
    /\ tasks \in ListStores
    /\ history = {}
    /\ clock = 1
    /\ outcome = NoOutcome
    /\ task_history = <<>>
    /\ progress = 0
    /\ task_display = <<>>
    /\ parsed_data = None
    /\ message = ""
    /\ lookup = None
    /\ listed = <<>>
    /\ call = None

\* one get_tasks call: lookup keeps its arguments, listed what it returned
GetTasks ==
    \E statuses \in LookupStatuses, starts_with \in ListPrefixes, contains \in ListInfixes :
        /\ lookup = None
        /\ lookup' = Some([statuses |-> statuses, starts_with |-> starts_with,
                           contains |-> contains])
        /\ listed' = get_tasks(db, statuses, starts_with, contains)
        /\ outcome' = [NoOutcome EXCEPT !.op = "get_tasks"]
        /\ UNCHANGED <<tasks, history, clock, task_history, progress, codec, call>>

NextList == GetTasks

SpecList == InitList /\ [][NextList]_vars

\* the methods of TaskHunter called on a store the commands can leave: any
\* statuses (several Current tasks included), and for every task the rows its
\* status asks for, a start at 1 and, unless it is Current, a stop at 2
ApiHistory(T) ==
    {[id |-> 2 * t.id - 1, taskid |-> t.id, is_start |-> TRUE, time |-> 1] :
        t \in {x \in T : x.status # TODO}}
    \cup {[id |-> 2 * t.id, taskid |-> t.id, is_start |-> FALSE, time |-> 2] :
             t \in {x \in T : x.status \in {IN_PROGRESS, FINISHED}}}

InitApi ==
    /\ tasks \in LookupStores
    /\ history = ApiHistory(tasks)
    /\ clock = 2
    /\ outcome = NoOutcome
    /\ task_history = <<>>
    /\ progress = 0
    /\ task_display = <<>>
    /\ parsed_data = None
    /\ message = ""
    /\ lookup = None
    /\ listed = <<>>
    /\ call = None

\* one call of a method that reads or writes the store: lookup keeps the
\* identifier it was given
ApiCall(res, op, task_identifier) ==
    /\ lookup = None
    /\ lookup' = Some([task_identifier |-> task_identifier, statuses |-> {}])
    /\ tasks' = res.db.tasks
    /\ history' = res.db.history
    /\ outcome' = [NoOutcome EXCEPT !.op = op, !.err = res.err, !.prev = PrevOf(db),
                                    !.ret = IF res.ret = None THEN 0 ELSE res.ret[1].id]
    /\ UNCHANGED <<clock, task_history, progress, codec, api>>

WorkonTask ==
    \E task_identifier \in LookupIdents :
        ApiCall(workon_task(db, task_identifier, [i \in 1..4 |-> clock]),
                "workon_task", task_identifier)

StopCurrentTask ==
    ApiCall(stop_current_task(db, [i \in 1..2 |-> clock]), "stop_current_task", NoIdent)

NextApi ==
    \/ GetTask
    \/ WorkonTask
    \/ StopCurrentTask

SpecApi == InitApi /\ [][NextApi]_vars

\* rm and edit statement by statement: every execute() commits on its own
\* connection, so the store is visible, and the process can be interrupted,
\* between any two of them.  call is the command in flight: its name, the
\* statement it runs next, the task it was given, the store it started from,
\* the parsed data, the id of the task it created and the records still to
\* insert.
StepRows(i) ==
    {[id |-> i, name |-> <<"a">>, estimate |-> None, description |-> None,
      status |-> s, last_modified |-> 1] : s \in Status}

StepStores ==
    {UNION {{[r EXCEPT !.id = i] : r \in f[i]} : i \in 1..MaxStepId} :
        f \in [1..MaxStepId -> {{}} \cup {{r} : r \in StepRows(1)}]}

InitSteps ==
    /\ tasks \in StepStores
    /\ history = ApiHistory(tasks)
    /\ clock = 2
    /\ outcome = NoOutcome
    /\ task_history = <<>>
    /\ progress = 0
    /\ task_display = <<>>
    /\ parsed_data = None
    /\ message = ""
    /\ lookup = None
    /\ listed = <<>>
    /\ call = None

Call(op, pc, taskid, before, parsed, new, left) ==
    Some([op |-> op, pc |-> pc, taskid |-> taskid, before |-> before,
          parsed |-> parsed, new |-> new, left |-> left])

\* what the user leaves in the editor: the text as displayed, another status
\* word (one the grammar knows, or not), or a line deleted
EditedTexts(text, status) ==
    {text}
    \cup {[text EXCEPT ![3].text = <<" ", s>>] : s \in (Status \cup {"Done"}) \ {status}}
    \cup {SubSeq(text, 1, i - 1) \o SubSeq(text, i + 1, Len(text)) : i \in 1..Len(text)}

\* rm: remove_task's first statement
RmBegin ==
    \E task \in tasks :
        /\ call = None
        /\ outcome.op = "init"
        /\ tasks' = delete_task_sql(db, task.id).tasks
        /\ call' = Call("rm", "delete_history", task.id, db, None, 0, <<>>)
        /\ outcome' = [NoOutcome EXCEPT !.op = "rm", !.task = task.id]
        /\ UNCHANGED <<history, clock, task_history, progress, codec, lookup, listed>>

\* edit: display, editor, parse_task_display, remove_task's first statement
EditBegin ==
    \E task \in tasks, utc_offset \in UtcOffsets :
        \E text \in EditedTexts(display_task(task, get_history(db, {task.id}), utc_offset),
                                 task.status) :
            \E res \in {edit_begin(db, task.id, text)} :
                /\ call = None
                /\ outcome.op = "init"
                /\ tasks' = res.db.tasks
                /\ call' = IF res.err # OK THEN None
                            ELSE Call("edit", "delete_history", task.id, db, res.ret, 0, <<>>)
                /\ task_display' = text
                /\ outcome' = [NoOutcome EXCEPT !.op = "edit", !.err = res.err,
                                                !.task = task.id]
                /\ UNCHANGED <<history, clock, task_history, progress, parsed_data,
                               message, lookup, listed>>

\* remove_task's second statement
DeleteHistory ==
    /\ call # None
    /\ call[1].pc = "delete_history"
    /\ history' = delete_history_sql(db, call[1].taskid).history
    /\ call' = Some([call[1] EXCEPT !.pc = IF call[1].op = "rm" THEN "done"
                                            ELSE "create_task"])
    /\ UNCHANGED <<tasks, clock, outcome, task_history, progress, codec, lookup, listed>>

\* edit: create_task from the parsed data
CreateTask ==
    /\ call # None
    /\ call[1].pc = "create_task"
    /\ LET p == call[1].parsed[1]
           new_updated_task == create_task(db, p.name, p.estimate, p.description,
                                           p.status, clock)
       IN  /\ tasks' = new_updated_task.db.tasks
           /\ call' = Some([call[1] EXCEPT !.new = new_updated_task.ret[1].id,
                                           !.left = p.history,
                                           !.pc = IF p.history = <<>> THEN "done"
                                                  ELSE "insert_history"])
    /\ UNCHANGED <<history, clock, outcome, task_history, progress, codec, lookup, listed>>

\* edit: one turn of the loop over parsed_task_data.history
InsertHistory ==
    /\ call # None
    /\ call[1].pc = "insert_history"
    /\ history' = insert_history(db, call[1].new, Head(call[1].left).is_start,
                                 Head(call[1].left).time).history
    /\ call' = Some([call[1] EXCEPT !.left = Tail(@),
                                    !.pc = IF Tail(call[1].left) = <<>> THEN "done"
                                           ELSE "insert_history"])
    /\ UNCHANGED <<tasks, clock, outcome, task_history, progress, codec, lookup, listed>>

\* the process ends between two statements: a signal, or an exception of the
\* next execute()
Kill ==
    /\ call # None
    /\ call[1].pc \notin {"done", "killed"}
    /\ call' = Some([call[1] EXCEPT !.pc = "killed"])
    /\ UNCHANGED <<tasks, history, clock, outcome, task_history, progress, codec,
                   lookup, listed>>

NextSteps ==
    \/ RmBegin
    \/ EditBegin
    \/ DeleteHistory
    \/ CreateTask
    \/ InsertHistory
    \/ Kill

SpecSteps == InitSteps /\ [][NextSteps]_vars

\* ---------------------------------------------------- writes one by one
\* The lifecycle operations read first and then write; every write is one
\* execute(), committed on its own. An operation in flight is its list of
\* writes still to run (call.left).
HistoryWrite(taskid, is_start) ==
    [field |-> "history", taskid |-> taskid, is_start |-> is_start, value |-> ""]

StatusWrite(taskid, value) ==
    [field |-> "status", taskid |-> taskid, is_start |-> FALSE, value |-> value]

Writes(err, left) == [err |-> err, left |-> left]

\* workon_task that makes the target Current before it stops the current task
workon_task_writes_target_first(d, task_identifier) ==
    LET got == get_task(d, task_identifier, {})
        cur == get_current_task(d)
    IN  IF got.err # OK THEN Writes(got.err, <<>>)
        ELSE IF cur.err # OK THEN Writes(cur.err, <<>>)
        ELSE IF cur.ret # None /\ cur.ret[1].id = got.ret[1].id THEN Writes(OK, <<>>)
        ELSE Writes(OK,
                    <<HistoryWrite(got.ret[1].id, TRUE),
                      StatusWrite(got.ret[1].id, CURRENT)>>
                    \o (IF cur.ret # None
                        THEN <<HistoryWrite(cur.ret[1].id, FALSE),
                               StatusWrite(cur.ret[1].id, IN_PROGRESS)>>
                        ELSE <<>>))

workon_task_writes(d, task_identifier) ==
    LET got == get_task(d, task_identifier, {})
        cur == get_current_task(d)
    IN  IF got.err # OK THEN Writes(got.err, <<>>)
        ELSE IF cur.err # OK THEN Writes(cur.err, <<>>)
        ELSE IF cur.ret # None /\ cur.ret[1].id = got.ret[1].id THEN Writes(OK, <<>>)
        ELSE Writes(OK,
                    (IF cur.ret # None
                     THEN <<HistoryWrite(cur.ret[1].id, FALSE),
                            StatusWrite(cur.ret[1].id, IN_PROGRESS)>>
                     ELSE <<>>)
                    \o <<HistoryWrite(got.ret[1].id, TRUE),
                          StatusWrite(got.ret[1].id, CURRENT)>>)

stop_current_task_writes(d) ==
    LET cur == get_current_task(d)
    IN  IF cur.err # OK THEN Writes(cur.err, <<>>)
        ELSE IF cur.ret = None THEN Writes(OK, <<>>)
        ELSE Writes(OK, <<HistoryWrite(cur.ret[1].id, FALSE),
                          StatusWrite(cur.ret[1].id, IN_PROGRESS)>>)

\* finish_task that sets the status before it closes the interval
finish_task_writes_status_first(d, taskid) ==
    LET got == get_task(d, IntIdent(taskid), {})
    IN  IF got.err # OK THEN Writes(got.err, <<>>)
        ELSE Writes(OK,
                    (IF got.ret[1].status # FINISHED
                     THEN <<StatusWrite(got.ret[1].id, FINISHED)>> ELSE <<>>)
                    \o (IF got.ret[1].status = CURRENT
                        THEN <<HistoryWrite(got.ret[1].id, FALSE)>> ELSE <<>>))

finish_task_writes(d, taskid) ==
    LET got == get_task(d, IntIdent(taskid), {})
    IN  IF got.err # OK THEN Writes(got.err, <<>>)
        ELSE Writes(OK,
                    (IF got.ret[1].status = CURRENT
                     THEN <<HistoryWrite(got.ret[1].id, FALSE)>> ELSE <<>>)
                    \o (IF got.ret[1].status # FINISHED
                        THEN <<StatusWrite(got.ret[1].id, FINISHED)>> ELSE <<>>))

\* the finish command: finish_task of the task given, or of the task that
\* stop_current_task returns, read after its two writes
finish_writes(d, task_id, t) ==
    IF task_id # 0 THEN finish_task_writes(d, task_id)
    ELSE LET stopped == stop_current_task(d, <<t, t>>)
         IN  IF stopped.err # OK THEN Writes(stopped.err, <<>>)
             ELSE IF stopped.ret = None THEN Writes(OK, <<>>)
             ELSE Writes(OK, stop_current_task_writes(d).left
                               \o finish_task_writes(stopped.db, stopped.ret[1].id).left)

\* one execute()
execute(d, w, t) ==
    IF w.field = "history" THEN insert_history(d, w.taskid, w.is_start, t)
    ELSE update_task_field(d, w.taskid, "status", w.value, t)

HistoryWrites(left) == {i \in 1..Len(left) : left[i].field = "history"}

\* the stores complete operations leave: at most one Current task
WriteStores == {T \in StepStores : Cardinality(CurrentIds(DB(T, {}))) <= 1}

InitWrites ==
    /\ tasks \in WriteStores
    /\ history = ApiHistory(tasks)
    /\ clock = 2
    /\ outcome = NoOutcome
    /\ task_history = <<>>
    /\ progress = 0
    /\ task_display = <<>>
    /\ parsed_data = None
    /\ message = ""
    /\ lookup = None
    /\ listed = <<>>
    /\ call = None

\* a command starts when none is running: its reads, and the writes it will do
Begin(op, taskid, w) ==
    /\ IF call = None THEN TRUE ELSE call[1].pc \in {"done", "killed"}
    /\ Cardinality(history) + Cardinality(HistoryWrites(w.left)) <= MaxWriteRows
    /\ call' = Call(op, IF w.left = <<>> THEN "done" ELSE "write", taskid, db, None, 0,
                    w.left)
    /\ outcome' = [NoOutcome EXCEPT !.op = op, !.err = w.err, !.task = taskid]
    /\ UNCHANGED <<tasks, history, clock, task_history, progress, codec, lookup, listed>>

WorkonBegin == \E i \in 1..MaxStepId : Begin("workon", i, workon_task_writes(db, IntIdent(i)))

StopBegin == Begin("stop", 0, stop_current_task_writes(db))

FinishBegin == \E i \in 0..MaxStepId : Begin("finish", i, finish_writes(db, i, clock))

\* the next write of the command in flight
Write ==
    /\ call # None
    /\ call[1].pc = "write"
    /\ \E d \in {execute(db, Head(call[1].left), clock)} :
          /\ tasks' = d.tasks
          /\ history' = d.history
    /\ call' = Some([call[1] EXCEPT !.left = Tail(@),
                                    !.pc = IF Tail(call[1].left) = <<>> THEN "done"
                                           ELSE "write"])
    /\ UNCHANGED <<clock, outcome, task_history, progress, codec, lookup, listed>>

NextWrites ==
    \/ WorkonBegin
    \/ StopBegin
    \/ FinishBegin
    \/ Write
    \/ Kill

SpecWrites == InitWrites /\ [][NextWrites]_vars

\* get_history as ls and display_task call it, on any history table of up to
\* MaxHistRows rows
HistoryStores ==
    {UNION {{[r EXCEPT !.id = i] : r \in f[i]} : i \in 1..MaxHistRows} :
        f \in [1..MaxHistRows ->
                 {{}} \cup {{r} : r \in [id : {1}, taskid : 1..MaxHistTask,
                                          is_start : BOOLEAN, time : 1..MaxStamp]}]}

InitHistory ==
    /\ tasks = {}
    /\ history \in HistoryStores
    /\ clock = 1
    /\ outcome = NoOutcome
    /\ task_history = <<>>
    /\ progress = 0
    /\ task_display = <<>>
    /\ parsed_data = None
    /\ message = ""
    /\ lookup = None
    /\ listed = <<>>
    /\ call = None

\* one get_history call: lookup keeps its argument, task_history what it returned
GetHistory ==
    \E taskids \in SUBSET (1..MaxHistTask) :
        /\ lookup = None
        /\ lookup' = Some([taskids |-> taskids])
        /\ task_history' = get_history(db, taskids)
        /\ outcome' = [NoOutcome EXCEPT !.op = "get_history"]
        /\ UNCHANGED <<tasks, history, clock, progress, codec, api>>

NextHistory == GetHistory

SpecHistory == InitHistory /\ [][NextHistory]_vars

\* ----------------------------------------------------------------- claims
AtMostOneCurrent(T) == Cardinality({t \in T : t.status = CURRENT}) <= 1

RowsOf(H, id) == {h \in H : h.taskid = id}

StatusOf(T, id) == (CHOOSE t \in T : t.id = id).status

\* the history rows this step added
Added == history' \ history

\* h is a stop (start) row of task id written during this step
StopRow(h, id) == h.taskid = id /\ ~h.is_start /\ h.time \in clock..clock'

StartRow(h, id) == h.taskid = id /\ h.is_start /\ h.time \in clock..clock'

\* this step changed task id in its status (to st) and last_modified (to now) only
Touched(id, st) ==
    \E t \in tasks, u \in tasks' :
        /\ t.id = id
        /\ u.id = id
        /\ u.status = st
        /\ u.last_modified \in clock..clock'
        /\ u = [t EXCEPT !.status = st, !.last_modified = u.last_modified]

\* this step left every task outside S as it was
FrameTasks(S) == {t \in tasks : t.id \notin S} = {t \in tasks' : t.id \notin S}

\* C1: from a store with at most one Current task, a workon_task call (the
\* workon and restart commands) leaves at most one Current task.
C1_WorkonKeepsOneCurrent ==
    [][(outcome'.op \in {"workon", "restart"} /\ AtMostOneCurrent(tasks))
          => AtMostOneCurrent(tasks')]_vars

C1_Witness ==
    /\ outcome.op = "workon"
    /\ outcome.err = OK
    /\ outcome.prev > 0
    /\ outcome.task > 0
    /\ outcome.prev # outcome.task
    /\ AtMostOneCurrent(tasks)

\* C2: in every state reachable through create, workon, stop, finish, restart,
\* estimate, rm and edit, at most one task is Current.
C2_AtMostOneCurrent == AtMostOneCurrent(tasks)

\* C3: workon_task on the task that is already Current writes nothing: no
\* history row is added and no task row changes.
C3_WorkonCurrentIsNoOp ==
    [][(outcome'.op = "workon" /\ outcome'.err = OK /\ outcome'.was = CURRENT)
          => (tasks' = tasks /\ history' = history)]_vars

C3_Witness ==
    /\ outcome.op = "workon"
    /\ outcome.err = OK
    /\ outcome.was = CURRENT
    /\ outcome.task = outcome.prev
    /\ history # {}

\* C4: workon_task(X) with another task C Current adds exactly a stop row for C
\* and a start row for X (both stamped now), makes C In Progress and X Current;
\* with no Current task it adds only the start row for X; nothing else changes.
C4_WorkonSwitches ==
    [][(/\ outcome'.op \in {"workon", "restart"}
        /\ outcome'.err = OK
        /\ outcome'.task > 0
        /\ outcome'.was # CURRENT)
          => LET x == outcome'.task
                 cs == CurrentIds(db)
             IN  /\ history \subseteq history'
                 /\ Touched(x, CURRENT)
                 /\ IF cs = {}
                    THEN /\ Cardinality(Added) = 1
                         /\ \A h \in Added : StartRow(h, x)
                         /\ FrameTasks({x})
                    ELSE \E c \in cs :
                         /\ cs = {c}
                         /\ Cardinality(Added) = 2
                         /\ \E h \in Added : StopRow(h, c)
                         /\ \E h \in Added : StartRow(h, x)
                         /\ Touched(c, IN_PROGRESS)
                         /\ FrameTasks({x, c})]_vars

C4_Witness ==
    /\ outcome.op = "workon"
    /\ outcome.err = OK
    /\ outcome.prev > 0
    /\ outcome.task > 0
    /\ outcome.prev # outcome.task
    /\ Cardinality(tasks) = 3
    /\ StatusOf(tasks, outcome.prev) = IN_PROGRESS
    /\ StatusOf(tasks, outcome.task) = CURRENT

\* C5: stop_current_task with no Current task returns none and writes nothing;
\* otherwise it adds exactly one stop row (stamped now) for the current task,
\* makes it In Progress, returns it, and get_current_task then returns none.
\* A second call in a row adds no row.
C5_StopCurrentTask ==
    [][outcome'.op = "stop"
          => /\ CurrentIds(db) = {}
                => /\ outcome'.err = OK
                   /\ outcome'.ret = 0
                   /\ tasks' = tasks
                   /\ history' = history
             /\ \A c \in CurrentIds(db) :
                  CurrentIds(db) = {c}
                    => /\ outcome'.err = OK
                       /\ outcome'.ret = c
                       /\ history \subseteq history'
                       /\ Cardinality(Added) = 1
                       /\ \A h \in Added : StopRow(h, c)
                       /\ Touched(c, IN_PROGRESS)
                       /\ FrameTasks({c})
                       /\ get_current_task(DB(tasks', history')).err = OK
                       /\ get_current_task(DB(tasks', history')).ret = None
             /\ outcome.op = "stop" => history' = history]_vars

C5_Witness ==
    /\ outcome.op = "stop"
    /\ outcome.err = OK
    /\ outcome.prev > 0
    /\ outcome.ret = outcome.prev
    /\ StatusOf(tasks, outcome.prev) = IN_PROGRESS

\* C6: finish_task on a Current task adds exactly one stop row (stamped now) and
\* sets Finished; on a TODO or In Progress task it sets Finished and adds no
\* row; on a Finished task it writes nothing at all.
C6_FinishTask ==
    [][(outcome'.op = "finish" /\ outcome'.err = OK /\ outcome'.task > 0)
          => LET x == outcome'.task
                 w == outcome'.was
             IN  /\ FrameTasks({x})
                 /\ IF w = FINISHED
                    THEN tasks' = tasks /\ history' = history
                    ELSE /\ Touched(x, FINISHED)
                         /\ IF w = CURRENT
                            THEN /\ history \subseteq history'
                                 /\ Cardinality(Added) = 1
                                 /\ \A h \in Added : StopRow(h, x)
                            ELSE history' = history]_vars

C6_Witness ==
    /\ outcome.op = "finish"
    /\ outcome.err = OK
    /\ outcome.was = FINISHED
    /\ outcome.task > 0
    /\ clock > (CHOOSE t \in tasks : t.id = outcome.task).last_modified

\* C7: restarting a Finished task keeps every history row the task had, adds
\* exactly one row, a start, and makes the task Current.
C7_RestartKeepsHistory ==
    [][(outcome'.op = "restart" /\ outcome'.err = OK)
          => LET x == outcome'.task
             IN  /\ StatusOf(tasks, x) = FINISHED
                 /\ RowsOf(history, x) \subseteq RowsOf(history', x)
                 /\ Cardinality(RowsOf(history', x) \ RowsOf(history, x)) = 1
                 /\ \A h \in RowsOf(history', x) \ RowsOf(history, x) : h.is_start
                 /\ StatusOf(tasks', x) = CURRENT]_vars

C7_Witness ==
    /\ outcome.op = "restart"
    /\ outcome.err = OK
    /\ outcome.was = FINISHED
    /\ \E h \in RowsOf(history, outcome.task) : ~h.is_start
    /\ Cardinality(RowsOf(history, outcome.task)) = 3

\* C8: under a non-decreasing whole-second clock every task's history, as
\* get_history returns it, alternates start/stop beginning with a start and has
\* strictly increasing timestamps.
WellFormedHistory(hist) ==
    /\ \A i \in 1..Len(hist) : hist[i].is_start = (i % 2 = 1)
    /\ \A i \in 1..(Len(hist) - 1) : hist[i].time < hist[i + 1].time

C8_HistoryWellFormed ==
    \A t \in tasks : WellFormedHistory(get_history(db, {t.id}))

\* C9: a lifecycle step changes a task's status only along TODO -> Current,
\* In Progress -> Current, Finished -> Current (workon / restart of that task),
\* Current -> In Progress (stop, or workon / restart of another task) and
\* Current / In Progress / TODO -> Finished (finish).
C9_StatusEdges ==
    [][\A t \in tasks, u \in tasks' :
          (t.id = u.id /\ t.status # u.status)
            => \/ /\ t.status \in {TODO, IN_PROGRESS, FINISHED}
                  /\ u.status = CURRENT
                  /\ outcome'.op \in {"workon", "restart"}
               \/ /\ t.status = CURRENT
                  /\ u.status = IN_PROGRESS
                  /\ outcome'.op \in {"stop", "workon", "restart"}
                  /\ outcome'.op = "stop" \/ outcome'.task # t.id
               \/ /\ t.status \in {CURRENT, IN_PROGRESS, TODO}
                  /\ u.status = FINISHED
                  /\ outcome'.op \in {"finish", "finish_current"}]_vars

C9_Witness ==
    /\ outcome.op = "restart"
    /\ outcome.err = OK
    /\ outcome.prev > 0
    /\ StatusOf(tasks, outcome.prev) = IN_PROGRESS
    /\ \E t \in tasks : t.status = FINISHED

\* C10: for a history of closed intervals (start, stop, start, stop, ...)
\* calc_progress returns the sum of stop time - start time over the intervals;
\* [(1000,1100),(1200,1250)] gives 150 and the empty history 0.
ClosedHistory(hist) ==
    /\ Len(hist) % 2 = 0
    /\ \A i \in 1..Len(hist) : hist[i].is_start = (i % 2 = 1)

RECURSIVE IntervalSum(_)
IntervalSum(hist) ==
    IF Len(hist) < 2 THEN 0
    ELSE hist[2].time - hist[1].time + IntervalSum(SubSeq(hist, 3, Len(hist)))

ExampleHistory ==
    <<[id |-> 1, taskid |-> 1, is_start |-> TRUE, time |-> 1000],
      [id |-> 2, taskid |-> 1, is_start |-> FALSE, time |-> 1100],
      [id |-> 3, taskid |-> 1, is_start |-> TRUE, time |-> 1200],
      [id |-> 4, taskid |-> 1, is_start |-> FALSE, time |-> 1250]>>

C10_ClosedProgress ==
    /\ (outcome.op = "calc_progress" /\ ClosedHistory(task_history))
          => (outcome.err = OK /\ progress = IntervalSum(task_history))
    /\ calc_progress(ExampleHistory, clock) = [err |-> OK, ret |-> 150]
    /\ calc_progress(<<>>, clock) = [err |-> OK, ret |-> 0]

C10_Witness ==
    /\ outcome.op = "calc_progress"
    /\ ClosedHistory(task_history)
    /\ Len(task_history) = 4
    /\ task_history[1].time < task_history[2].time
    /\ task_history[2].time <= task_history[3].time
    /\ task_history[3].time < task_history[4].time
    /\ progress = 2

\* C11: for a well-formed history that ends with an open start at time S, with
\* S <= now, calc_progress returns the total of the closed intervals plus
\* now - S.
OpenHistory(hist) ==
    /\ Len(hist) % 2 = 1
    /\ WellFormedHistory(hist)
    /\ hist[Len(hist)].time <= clock

C11_OpenProgress ==
    (outcome.op = "calc_progress" /\ OpenHistory(task_history))
        => /\ outcome.err = OK
           /\ progress = IntervalSum(SubSeq(task_history, 1, Len(task_history) - 1))
                            + clock - task_history[Len(task_history)].time

\* C13: validate_task_data rejects every parsed task whose status and history
\* disagree, with the message of the rule broken: TODO with a history, another
\* status without one, Current ending in a stop, In Progress or Finished ending
\* in a start.
Validated == outcome.op = "validate_task_data"

LastIsStart(h) == h[Len(h)].is_start

C13_StatusHistoryMismatch ==
    Validated =>
        LET d == parsed_data[1]
            h == d.history
        IN  /\ (d.status = TODO /\ h # <<>>)
                  => /\ outcome.err = ThunterTaskValidationError
                     /\ message = "Can't have a history if the status is TODO"
            /\ (d.status # TODO /\ h = <<>>)
                  => /\ outcome.err = ThunterTaskValidationError
                     /\ message = "Must have a history if status is"
            /\ (d.status = CURRENT /\ h # <<>> /\ ~LastIsStart(h))
                  => /\ outcome.err = ThunterTaskValidationError
                     /\ message = "Last history record must be a Start if the status is Current"
            /\ (d.status \in {IN_PROGRESS, FINISHED} /\ h # <<>> /\ LastIsStart(h))
                  => /\ outcome.err = ThunterTaskValidationError
                     /\ message = "Last history record must be a Stop if the status is"

C13_Witness ==
    /\ Validated
    /\ parsed_data[1].status = CURRENT
    /\ Len(parsed_data[1].history) = 2
    /\ parsed_data[1].history[1].is_start
    /\ ~parsed_data[1].history[2].is_start
    /\ parsed_data[1].history[1].time < parsed_data[1].history[2].time
    /\ message = "Last history record must be a Start if the status is Current"

\* the status rules of validate_task_data hold for d
StatusFits(d) ==
    /\ d.status = TODO <=> d.history = <<>>
    /\ d.status = CURRENT => LastIsStart(d.history)
    /\ d.status \in {IN_PROGRESS, FINISHED} => ~LastIsStart(d.history)

\* some record is not later than the record before it
Descends(h) == \E i \in 2..Len(h) : h[i].time <= h[i - 1].time

FirstDescent(h) ==
    CHOOSE i \in 2..Len(h) :
        /\ h[i].time <= h[i - 1].time
        /\ \A j \in 2..(i - 1) : h[j].time > h[j - 1].time

AscendingMessage == "History must be in ascending order by time"

AlternateMessage == "History must alternate between Start and Stop"

SameKindAdjacent(h) == \E i \in 2..Len(h) : h[i].is_start = h[i - 1].is_start

C15_NonAlternatingMessage ==
    (Validated /\ StatusFits(parsed_data[1]) /\ SameKindAdjacent(parsed_data[1].history))
        => /\ outcome.err = ThunterTaskValidationError
           /\ message = AlternateMessage

\* C12: for a task and history that satisfy the data model,
\* parse_task_display(display_task(task, history)) succeeds and gives back the
\* task's name, estimate, description and status and the same (is_start, time)
\* pairs in the same order.
RoundTripped == outcome.op = "parse_task_display" /\ outcome.was = "display_task"

Pairs(hist) == [i \in 1..Len(hist) |-> [is_start |-> hist[i].is_start, time |-> hist[i].time]]

C12_RoundTrip ==
    RoundTripped
        => /\ outcome.err = OK
           /\ parsed_data = Some([name |-> TheTask.name,
                                  estimate |-> TheTask.estimate,
                                  description |-> TheTask.description,
                                  status |-> TheTask.status,
                                  history |-> Pairs(task_history)])

\* C16: every failure of parse_task_display, structural or semantic, reaches
\* the caller as a ThunterTaskValidationError.
C16_OneErrorKind ==
    (outcome.op = "parse_task_display" /\ outcome.err # OK)
        => outcome.err = ThunterTaskValidationError

\* the identifier of the get_task call is given: not None, not 0, not ""
Given(i) ==
    \/ i.kind = "int" /\ i.int # 0
    \/ i.kind = "str" /\ i.str # <<>>

\* the rows of T the identifier selects: by id for an int or a string of
\* digits, by the LIKE prefix pattern for any other string
Selected(T, i) ==
    {t \in T : IF i.kind = "int" THEN t.id = i.int
               ELSE IF isdigit(i.str) THEN t.id = StrToInt(i.str)
               ELSE LikePrefix(t.name, i.str)}

\* the get_task call found exactly the rows of M: the one row, or the error
\* for none, or the error for several
Answers(M) ==
    /\ Cardinality(M) = 1 => (outcome'.err = OK /\ \A t \in M : outcome'.ret = t.id)
    /\ Cardinality(M) = 0 => outcome'.err = ThunterCouldNotFindTaskError
    /\ Cardinality(M) > 1 => outcome'.err = ThunterFoundMultipleTasksError

\* C17: get_task with an identifier that is given and no status filter returns
\* the task when exactly one task matches, raises ThunterCouldNotFindTaskError
\* when none does and ThunterFoundMultipleTasksError when several do (a task
\* with exactly that name among them or not), and leaves the store as it was.
C17_GetTaskByIdentifier ==
    [][(outcome'.op = "get_task" /\ Given(lookup'[1].task_identifier)
            /\ lookup'[1].statuses = {})
          => /\ Answers(Selected(tasks, lookup'[1].task_identifier))
             /\ tasks' = tasks
             /\ history' = history]_vars

C17_Witness ==
    /\ outcome.op = "get_task"
    /\ lookup[1].task_identifier = StrIdent(<<"a">>)
    /\ lookup[1].statuses = {}
    /\ \E t \in tasks : t.name = <<"a">>
    /\ \E t \in tasks : t.name = <<"a", "b">>
    /\ outcome.err = ThunterFoundMultipleTasksError

\* C18: get_task with an identifier that is given and a non-empty status set
\* answers from the tasks that match the identifier and have a status of the
\* set: a match outside the set gives ThunterCouldNotFindTaskError and does not
\* count towards ThunterFoundMultipleTasksError.
C18_StatusFilter ==
    [][(outcome'.op = "get_task" /\ Given(lookup'[1].task_identifier)
            /\ lookup'[1].statuses # {})
          => Answers({t \in Selected(tasks, lookup'[1].task_identifier) :
                        t.status \in lookup'[1].statuses})]_vars

C18_Witness ==
    /\ outcome.op = "get_task"
    /\ lookup[1].task_identifier = StrIdent(<<"a">>)
    /\ lookup[1].statuses = {FINISHED}
    /\ Cardinality(Selected(tasks, lookup[1].task_identifier)) = 2
    /\ outcome.err = OK
    /\ outcome.ret > 0
    /\ StatusOf(tasks, outcome.ret) = FINISHED

\* C19: get_task without an identifier (None or "") returns the Current task
\* and raises ThunterCouldNotFindTaskError when there is none; an identifier
\* that is present (any int, any non-empty string) is looked up, never taken
\* as omitted.
Present(i) == i.kind = "int" \/ (i.kind = "str" /\ i.str # <<>>)

C19_OmittedIdentifier ==
    [][(outcome'.op = "get_task" /\ lookup'[1].statuses = {} /\ AtMostOneCurrent(tasks))
          => IF Present(lookup'[1].task_identifier)
             THEN Answers(Selected(tasks, lookup'[1].task_identifier))
             ELSE Answers({t \in tasks : t.status = CURRENT})]_vars

\* C20: a name lookup is a case-sensitive prefix match: the task a non-numeric
\* identifier finds has a name that begins with exactly the identifier's
\* characters.
BeginsWith(name, prefix) ==
    /\ Len(prefix) <= Len(name)
    /\ \A i \in 1..Len(prefix) : name[i] = prefix[i]

C20_CaseSensitivePrefix ==
    (/\ outcome.op = "get_task"
     /\ outcome.err = OK
     /\ lookup[1].task_identifier.kind = "str"
     /\ lookup[1].task_identifier.str # <<>>
     /\ ~isdigit(lookup[1].task_identifier.str))
        => \E t \in tasks :
              /\ t.id = outcome.ret
              /\ BeginsWith(t.name, lookup[1].task_identifier.str)

\* the tasks of T that pass every filter of the get_tasks call q
StartsWith(name, q) == q.starts_with # None => BeginsWith(name, q.starts_with[1])

Contains(name, q) ==
    q.contains # None
        => \E k \in 0..(Len(name) - Len(q.contains[1])) :
              \A i \in 1..Len(q.contains[1]) : name[k + i] = q.contains[1][i]

Passes(t, q) ==
    /\ q.statuses # {} => t.status \in q.statuses
    /\ StartsWith(t.name, q)
    /\ Contains(t.name, q)

\* the list is ordered Current, In Progress, TODO, Finished and within one
\* status by last_modified descending
CanonicalOrder(l) ==
    \A i \in 1..Len(l), j \in 1..Len(l) :
        i < j => \/ StatusIndex(l[i].status) < StatusIndex(l[j].status)
                 \/ /\ l[i].status = l[j].status
                    /\ l[i].last_modified >= l[j].last_modified

\* C21: get_tasks returns exactly the tasks that satisfy all given filters at
\* once (status in the set, name starts with starts_with, name contains
\* contains), each once, ordered Current, In Progress, TODO, Finished and within
\* one status by last_modified descending.
C21_GetTasksFiltersAndOrder ==
    outcome.op = "get_tasks"
        => /\ {listed[i] : i \in 1..Len(listed)} = {t \in tasks : Passes(t, lookup[1])}
           /\ Len(listed) = Cardinality({t \in tasks : Passes(t, lookup[1])})
           /\ CanonicalOrder(listed)

\* C22: with more than one Current task get_current_task raises AssertionError
\* instead of returning one of them, and so do stop_current_task, get_task
\* without an identifier and workon_task of a task that exists; workon_task
\* fails for every identifier; none of them writes to the store.
Omitted(i) == ~Given(i)

C22_SeveralCurrentIsFatal ==
    [][(Cardinality(CurrentIds(db)) > 1
          /\ outcome'.op \in {"get_task", "workon_task", "stop_current_task"}
          /\ (outcome'.op = "get_task" => Omitted(lookup'[1].task_identifier)))
          => /\ get_current_task(db).err = AssertionError
             /\ outcome'.err # OK
             /\ (outcome'.op = "workon_task"
                   /\ Cardinality(Selected(tasks, lookup'[1].task_identifier)) = 1)
                   => outcome'.err = AssertionError
             /\ outcome'.op # "workon_task" => outcome'.err = AssertionError
             /\ tasks' = tasks
             /\ history' = history]_vars

C22_Witness ==
    /\ outcome.op = "workon_task"
    /\ outcome.err = AssertionError
    /\ Cardinality(CurrentIds(db)) = 2
    /\ lookup[1].task_identifier = StrIdent(<<"b">>)
    /\ \E t \in tasks : t.name = <<"B">> /\ t.status = CURRENT
    /\ Cardinality(history) = 2

\* C23: workon_task with an identifier that matches no task raises
\* ThunterCouldNotFindTaskError and with one that matches several raises
\* ThunterFoundMultipleTasksError, and leaves the store as it was: the current
\* task is not stopped, no history row is added, no task row changes.
C23_WorkonUnresolvedWritesNothing ==
    [][(outcome'.op = "workon_task" /\ Given(lookup'[1].task_identifier)
          /\ Cardinality(Selected(tasks, lookup'[1].task_identifier)) # 1)
          => /\ Answers(Selected(tasks, lookup'[1].task_identifier))
             /\ tasks' = tasks
             /\ history' = history]_vars

C23_Witness ==
    /\ outcome.op = "workon_task"
    /\ outcome.err = ThunterFoundMultipleTasksError
    /\ lookup[1].task_identifier = StrIdent(<<"a">>)
    /\ outcome.prev > 0
    /\ StatusOf(tasks, outcome.prev) = CURRENT
    /\ \E h \in history : h.taskid = outcome.prev /\ h.is_start
    /\ Cardinality(history) = 3

\* the rm command has stopped: it ran through, or it was interrupted
Stopped(op) == call # None /\ call[1].op = op /\ call[1].pc \in {"done", "killed"}

\* C24: remove_task(id) removes the task and all of its history rows as one
\* unit: wherever the operation stops, get_task(id) raises
\* ThunterCouldNotFindTaskError and no history row of that task is left, and
\* every other task and its history are as before.
C24_RemoveTaskIsOneUnit ==
    Stopped("rm")
        => LET id == call[1].taskid
               before == call[1].before
           IN  /\ get_task(db, IntIdent(id), {}).err = ThunterCouldNotFindTaskError
               /\ RowsOf(history, id) = {}
               /\ {t \in tasks : t.id # id} = {t \in before.tasks : t.id # id}
               /\ {h \in history : h.taskid # id} = {h \in before.history : h.taskid # id}

\* the store holds the task the edit began with, with all of its history rows
OldHeld ==
    LET id == call[1].taskid
        before == call[1].before
    IN  /\ {t \in tasks : t.id = id} = {t \in before.tasks : t.id = id}
        /\ RowsOf(history, id) = RowsOf(before.history, id)

\* the store holds the task made from the parsed data, with every parsed record
NewHeld ==
    LET p == call[1].parsed[1]
    IN  /\ call[1].new # 0
        /\ \E t \in tasks :
              /\ t.id = call[1].new
              /\ t.name = p.name
              /\ t.estimate = p.estimate
              /\ t.description = p.description
              /\ t.status = p.status
        /\ Pairs(get_history(db, {call[1].new})) = p.history

\* C27: the edit workflow replaces a task atomically: wherever it stops after
\* the text parsed, the store holds either the old task with its whole old
\* history or the new task with every parsed history record.
C27_EditIsAtomic ==
    (call # None /\ call[1].op = "edit") => (OldHeld \/ NewHeld)

\* C28: when the edited text does not parse or does not validate, edit changes
\* nothing in the store: the task keeps its id, its fields and its history.
C28_FailedEditWritesNothing ==
    [][(outcome'.op = "edit" /\ outcome'.err # OK)
          => (tasks' = tasks /\ history' = history)]_vars

C28_Witness ==
    /\ outcome.op = "edit"
    /\ outcome.err = VisitationError
    /\ call = None
    /\ \E t \in tasks : t.id = outcome.task /\ t.status = IN_PROGRESS
    /\ Cardinality(RowsOf(history, outcome.task)) = 2
    /\ Len(task_display) = 7

\* the commands that change a field of a task that stays in the store
FieldOps == {"workon", "restart", "stop", "finish", "finish_current", "estimate"}

SameFields(t, u) ==
    /\ t.name = u.name
    /\ t.estimate = u.estimate
    /\ t.description = u.description
    /\ t.status = u.status

\* C25 as stated: workon, stop, finish and estimate set the last_modified of a
\* task whose status or estimate they change to the current time, a task's
\* last_modified never decreases, and a task whose fields did not change keeps
\* its last_modified.
C25_LastModifiedFollowsChange ==
    [][outcome'.op \in FieldOps
          => \A t \in tasks, u \in tasks' :
                t.id = u.id
                  => /\ ~SameFields(t, u) => u.last_modified \in clock..clock'
                     /\ t.last_modified <= u.last_modified
                     /\ SameFields(t, u) => u.last_modified = t.last_modified]_vars

\* C25, amended: as above, but a task keeps its last_modified only when no
\* command wrote to it: estimate sets the last_modified of its task to the
\* current time also when the estimate it stores is the one the task had.
C25_LastModifiedFollowsWrite ==
    [][outcome'.op \in FieldOps
          => \A t \in tasks, u \in tasks' :
                t.id = u.id
                  => /\ ~SameFields(t, u) => u.last_modified \in clock..clock'
                     /\ t.last_modified <= u.last_modified
                     /\ (outcome'.op = "estimate" /\ outcome'.err = OK
                            /\ outcome'.task = t.id)
                          => u.last_modified \in clock..clock'
                     /\ (SameFields(t, u)
                            /\ ~(outcome'.op = "estimate" /\ outcome'.task = t.id))
                          => u.last_modified = t.last_modified]_vars

C25_Witness ==
    /\ outcome.op = "estimate"
    /\ outcome.err = OK
    /\ clock = 2
    /\ \E t \in tasks : t.id = outcome.task /\ t.last_modified = 2 /\ t.estimate = Some(1)
    /\ \E t \in tasks : t.id # outcome.task /\ t.last_modified = 1 /\ t.status = CURRENT

\* C26: in every state reached through create, workon --create, estimate and
\* edit every task's estimate is absent or an integer >= 1.
C26_EstimateIsPositive ==
    \A t \in tasks : t.estimate = None \/ t.estimate[1] >= 1

\* the commands that keep every task in the store
AppendOps == FieldOps \cup {"create"}

\* C29: history is append-only: create, workon, stop, finish, restart and
\* estimate leave every stored history row (id, task id, kind, time) as it is
\* and add rows only for the task they are given (or create) and, for workon
\* and restart, the task that was Current; a row disappears only in a command
\* that removes the task it belongs to (rm, edit).
C29_HistoryAppendOnly ==
    [][/\ outcome'.op \in AppendOps
            => /\ history \subseteq history'
               /\ \A h \in Added :
                     \/ h.taskid = outcome'.task
                     \/ h.taskid \notin {t.id : t \in tasks}
                     \/ /\ outcome'.op \in {"workon", "restart"}
                        /\ h.taskid = outcome'.prev
       /\ \A h \in history \ history' :
             /\ outcome'.op \in {"rm", "edit"}
             /\ h.taskid = outcome'.task]_vars

C29_Witness ==
    /\ outcome.op = "workon"
    /\ outcome.err = OK
    /\ outcome.prev > 0
    /\ outcome.task > 0
    /\ outcome.prev # outcome.task
    /\ Cardinality(RowsOf(history, outcome.prev)) = 2
    /\ Cardinality(RowsOf(history, outcome.task)) = 1
    /\ clock = 2
    /\ \E h \in RowsOf(history, outcome.prev) : h.time = 1

\* C30: get_history(taskids) returns exactly the history rows whose task id is
\* among taskids, each once, sorted by task id, then by time, and of two rows of
\* one task with the same time the start before the stop.
C30_GetHistorySorted ==
    outcome.op = "get_history"
        => LET l == task_history
               rows == {h \in history : h.taskid \in lookup[1].taskids}
           IN  /\ {l[i] : i \in 1..Len(l)} = rows
               /\ Len(l) = Cardinality(rows)
               /\ \A i \in 1..Len(l), j \in 1..Len(l) :
                     i < j => \/ l[i].taskid < l[j].taskid
                              \/ /\ l[i].taskid = l[j].taskid
                                 /\ l[i].time < l[j].time
                              \/ /\ l[i].taskid = l[j].taskid
                                 /\ l[i].time = l[j].time
                                 /\ l[i].is_start \/ ~l[j].is_start

C30_Witness ==
    /\ outcome.op = "get_history"
    /\ lookup[1].taskids = {1}
    /\ Len(task_history) = 2
    /\ Cardinality(history) = 3
    /\ task_history[1].time = task_history[2].time
    /\ task_history[1].is_start
    /\ ~task_history[2].is_start
    /\ task_history[1].id > task_history[2].id

\* C31: create_task adds exactly one task, with the name, estimate and
\* description it is given, status TODO (as the create command calls it) and
\* last_modified = now; the new id is the id of no task in the store; the task
\* returned is the stored one; every other task and the history stay as they are.
C31_CreateAddsOneTask ==
    [][(outcome'.op = "create")
          => /\ outcome'.err = OK
             /\ tasks \subseteq tasks'
             /\ history' = history
             /\ \E new \in tasks' \ tasks :
                   /\ tasks' = tasks \cup {new}
                   /\ new.id \notin {t.id : t \in tasks}
                   /\ new.id = outcome'.ret
                   /\ new.status = TODO
                   /\ new.last_modified \in clock..clock'
                   /\ \E c \in CreateInputs :
                         /\ new.name = c.name
                         /\ new.estimate = c.estimate
                         /\ new.description = c.description]_vars

C31_Witness ==
    /\ outcome.op = "create"
    /\ outcome.err = OK
    /\ outcome.ret = 2
    /\ Cardinality(tasks) = 2
    /\ \E t \in tasks : t.id = 1 /\ t.last_modified = 1 /\ t.status = FINISHED
    /\ \E t \in tasks : t.id = 2 /\ t.last_modified = 2 /\ t.status = TODO
    /\ history # {}

\* the six rules: TODO has no history and every other status has one, whose
\* last record is a start for Current and a stop for In Progress and Finished;
\* the times are positive and strictly increasing; the records alternate
\* start/stop from a start
Conforms(d) ==
    /\ StatusFits(d)
    /\ WellFormedHistory(d.history)
    /\ \A i \in 1..Len(d.history) : d.history[i].time > 0

\* C32: validate_task_data accepts exactly the data the six rules allow: it
\* returns without error for every conforming status and history, and raises
\* for every other.
C32_AcceptsExactlyConforming ==
    Validated
        => /\ Conforms(parsed_data[1]) <=> message = OK
           /\ message = OK <=> outcome.err = OK

C32_Witness ==
    /\ Validated
    /\ outcome.err = OK
    /\ parsed_data[1].status = FINISHED
    /\ Len(parsed_data[1].history) = 2
    /\ parsed_data[1].history[1].time = 1
    /\ parsed_data[1].history[2].time = 2

\* C33: every task the lifecycle commands can produce passes
\* validate_task_data, so saving it unchanged through edit succeeds.
C33_ReachablePassesValidation ==
    \A t \in tasks :
        validate_task_data([status |-> t.status,
                            history |-> Pairs(get_history(db, {t.id}))]) = OK

\* the start rows of task id less its stop rows
OpenIntervals(H, id) ==
    Cardinality({h \in RowsOf(H, id) : h.is_start})
        - Cardinality({h \in RowsOf(H, id) : ~h.is_start})

\* C34: after every complete operation each task has one start record more
\* than stop records if it is Current, and as many of each otherwise.
C34_OpenIntervalIffCurrent ==
    \A t \in tasks :
        OpenIntervals(history, t.id) = IF t.status = CURRENT THEN 1 ELSE 0

C34_Witness ==
    /\ outcome.op = "workon"
    /\ outcome.err = OK
    /\ \E t \in tasks :
          /\ t.status = CURRENT
          /\ Cardinality(RowsOf(history, t.id)) = 1
          /\ OpenIntervals(history, t.id) = 1
    /\ \E t \in tasks :
          /\ t.status = IN_PROGRESS
          /\ Cardinality(RowsOf(history, t.id)) = 2
          /\ OpenIntervals(history, t.id) = 0

\* the rows of task id in the order they were written
RECURSIVE ByRowId(_)
ByRowId(rows) ==
    IF rows = {} THEN <<>>
    ELSE LET first == CHOOSE r \in rows : \A q \in rows : r.id <= q.id
         IN  <<first>> \o ByRowId(rows \ {first})

\* the seconds task id has been Current: each start written opens an interval
\* that the next row written, a stop, closes; an interval still open runs to now
SecondsCurrent(H, id, time_now) ==
    LET written == ByRowId(RowsOf(H, id))
    IN  IntervalSum(written)
            + IF Len(written) % 2 = 1 THEN time_now - written[Len(written)].time ELSE 0

\* C35: under a non-decreasing whole-second clock, calc_progress of
\* get_history([id]) is the number of seconds task id has been Current up to
\* now, also when a stop and the next start fall in the same second.
C35_ProgressIsTimeCurrent ==
    \A t \in tasks :
        LET r == calc_progress(get_history(db, {t.id}), clock)
        IN  r.err = OK /\ r.ret = SecondsCurrent(history, t.id, clock)

\* the record of task id written last
EndsWith(H, id, is_start) ==
    /\ RowsOf(H, id) # {}
    /\ ByRowId(RowsOf(H, id))[Cardinality(RowsOf(H, id))].is_start = is_start

\* the last record of task id as get_history returns it
ReadsLast(H, id, is_start) ==
    /\ RowsOf(H, id) # {}
    /\ get_history(DB({}, H), {id})[Cardinality(RowsOf(H, id))].is_start = is_start

\* the writes the command in flight set out to do, and those it has done
Planned ==
    IF call[1].op = "workon"
    THEN workon_task_writes(call[1].before, IntIdent(call[1].taskid)).left
    ELSE IF call[1].op = "finish"
    THEN finish_writes(call[1].before, call[1].taskid, clock).left
    ELSE stop_current_task_writes(call[1].before).left

Done == Len(Planned) - Len(call[1].left)

\* a Current task whose history ends with a stop
ClosedCurrent(id) ==
    /\ StatusOf(tasks, id) = CURRENT
    /\ EndsWith(history, id, FALSE)

\* a task that is not Current whose history ends with a start
OpenNotCurrent(id) ==
    /\ StatusOf(tasks, id) # CURRENT
    /\ EndsWith(history, id, TRUE)

\* C36: the writes of a lifecycle operation are committed one by one, so a
\* process stop between them leaves mixed states. After the first write of a
\* workon_task that stops another task, and after the first write of a finish
\* of the current task, that task is Current and its history ends with a stop;
\* before the last write of workon_task the target is not Current and its
\* history ends with a start.
C36_InterruptedStates ==
    (call # None /\ call[1].op \in {"workon", "finish"})
        => /\ (call[1].op = "workon" /\ Len(Planned) = 4 /\ Done = 1)
                 => ClosedCurrent(PrevOf(call[1].before))
           /\ (call[1].op = "workon" /\ Len(Planned) >= 2 /\ Done = Len(Planned) - 1)
                 => OpenNotCurrent(call[1].taskid)
           /\ (call[1].op = "finish" /\ Len(Planned) >= 2 /\ Done = 1)
                 => ClosedCurrent(IF call[1].taskid # 0 THEN call[1].taskid
                                  ELSE PrevOf(call[1].before))

\* both kinds at once: a workon killed before its last write, then the finish
\* of the other task killed after its first
C36_Witness ==
    /\ call # None
    /\ call[1].pc = "killed"
    /\ call[1].op = "finish"
    /\ Done = 1
    /\ {t.id : t \in tasks} = {1, 2}
    /\ ClosedCurrent(2)
    /\ ReadsLast(history, 2, FALSE)
    /\ OpenNotCurrent(1)
    /\ ReadsLast(history, 1, TRUE)

\* C37: between any two writes of workon, stop and finish, and so wherever
\* one of them is interrupted, at most one task is Current.
C37_OneCurrentBetweenWrites ==
    /\ Cardinality(CurrentIds(db)) <= 1
    /\ (call # None /\ call[1].op = "workon" /\ Len(Planned) = 4 /\ Done \in {2, 3})
          => CurrentIds(db) = {}

C37_Witness ==
    /\ call # None
    /\ call[1].pc = "killed"
    /\ call[1].op = "workon"
    /\ Len(Planned) = 4
    /\ Done = 2
    /\ StatusOf(call[1].before.tasks, 2) = CURRENT
    /\ StatusOf(tasks, 2) = IN_PROGRESS
    /\ StatusOf(tasks, 1) = TODO
    /\ CurrentIds(db) = {}

\* C38: finish without an identifier stops the current task and finishes it:
\* one stop record is added in all, the task is Finished and no task is
\* Current; with no current task it writes nothing.
C38_FinishCurrent ==
    [][(outcome'.op = "finish_current")
          => /\ outcome'.err = OK
             /\ IF CurrentIds(db) = {}
                THEN tasks' = tasks /\ history' = history
                ELSE /\ history \subseteq history'
                     /\ Cardinality(Added) = 1
                     /\ \A h \in Added : StopRow(h, PrevOf(db))
                     /\ Touched(PrevOf(db), FINISHED)
                     /\ FrameTasks({PrevOf(db)})
                     /\ CurrentIds(DB(tasks', history')) = {}]_vars

C38_Witness ==
    /\ outcome.op = "finish_current"
    /\ outcome.err = OK
    /\ outcome.prev = 2
    /\ StatusOf(tasks, 2) = FINISHED
    /\ Cardinality(RowsOf(history, 2)) = 2
    /\ OpenIntervals(history, 2) = 0
    /\ CurrentIds(db) = {}
    /\ Cardinality(tasks) = 2

\* the tasks identifier i names: the one with that id, or those whose name
\* begins with it
MatchedBy(i) ==
    {t \in tasks : IF isdigit(i.str) THEN t.id = StrToInt(i.str)
                   ELSE LikePrefix(t.name, i.str)}

OnlyFinished(i) == MatchedBy(i) # {} /\ \A t \in MatchedBy(i) : t.status = FINISHED

OnlyUnfinished(i) == MatchedBy(i) # {} /\ \A t \in MatchedBy(i) : t.status # FINISHED

\* what workon and restart answer, in this store, to an identifier of the
\* wrong side
RefusesWrongStatus ==
    \A i \in CliIdents(LifeBounds) \ {NoIdent} :
        LET ts == [k \in 1..5 |-> clock]
            plain == workon(db, i, FALSE, None, None, ts)
            made == workon(db, i, TRUE, None, None, ts)
            again == restart(db, i, Tail(ts))
        IN  /\ OnlyFinished(i)
                  => /\ plain.err = ThunterCouldNotFindTaskError
                     /\ plain.db = db
            /\ (OnlyFinished(i) /\ ~isdigit(i.str))
                  => /\ made.err = OK
                     /\ tasks \ {t \in tasks : t.status = CURRENT} \subseteq made.db.tasks
                     /\ \E new \in made.db.tasks \ tasks :
                           /\ new.id \notin {t.id : t \in tasks}
                           /\ new.name = i.str
                           /\ new.status = CURRENT
                           /\ CurrentIds(made.db) = {new.id}
            /\ OnlyUnfinished(i)
                  => /\ again.err = ThunterCouldNotFindTaskError
                     /\ again.db = db

\* what a workon or restart step does to the store
ResolvesRightStatus ==
    /\ (outcome'.op \in {"workon", "restart"} /\ outcome'.err # OK)
          => tasks' = tasks /\ history' = history
    /\ (outcome'.op = "workon" /\ outcome'.err = OK)
          => /\ {t \in tasks : t.status = FINISHED} \subseteq tasks'
             /\ outcome'.task # 0 => outcome'.was \in OPEN
    /\ (outcome'.op = "restart" /\ outcome'.err = OK)
          => /\ outcome'.was = FINISHED
             /\ \A t \in tasks : t.status \in {TODO, IN_PROGRESS} => t \in tasks'

\* C39: workon resolves only Current, In Progress and TODO tasks and restart
\* only Finished ones: on an identifier that matches only tasks of the other
\* side they raise ThunterCouldNotFindTaskError and change nothing, except that
\* workon --create with a name creates a task of that name and makes it Current.
C39_WorkonOpenRestartFinished ==
    [](RefusesWrongStatus) /\ [][ResolvesRightStatus]_vars

\* workon --create a, where the only task named a is Finished
C39_Witness ==
    /\ outcome.op = "workon"
    /\ outcome.err = OK
    /\ outcome.task = 0
    /\ Cardinality(tasks) = 2
    /\ \E t \in tasks : t.id = 1 /\ t.name = <<"a">> /\ t.status = FINISHED
    /\ \E t \in tasks : t.id = 2 /\ t.name = <<"a">> /\ t.status = CURRENT
    /\ \E h \in history : h.taskid = 2 /\ h.is_start

\* the identifier is made of digits only
AllDigits(i) == i.kind = "str" /\ isdigit(i.str)

\* C40: an identifier made of digits only is resolved by id and never as a
\* name prefix: get_task returns the task of that id (if the status filter
\* lets it pass) or raises ThunterCouldNotFindTaskError, whatever the names of
\* the tasks begin with.
C40_DigitsAreAnId ==
    [][(outcome'.op = "get_task" /\ AllDigits(lookup'[1].task_identifier))
          => LET n == StrToInt(lookup'[1].task_identifier.str)
                 statuses == lookup'[1].statuses
                 M == {t \in tasks : t.id = n /\ (statuses # {} => t.status \in statuses)}
             IN  /\ tasks' = tasks
                 /\ history' = history
                 /\ IF M = {}
                    THEN outcome'.err = ThunterCouldNotFindTaskError /\ outcome'.ret = 0
                    ELSE outcome'.err = OK /\ outcome'.ret = n]_vars

\* get_task("2") where the only task has id 1 and the name 2
C40_Witness ==
    /\ outcome.op = "get_task"
    /\ outcome.err = ThunterCouldNotFindTaskError
    /\ lookup[1].task_identifier = StrIdent(<<"2">>)
    /\ lookup[1].statuses = {}
    /\ Cardinality(tasks) = 1
    /\ \E t \in tasks : t.id = 1 /\ t.name = <<"2">>

====
